---- MODULE Spec2Model ----
(***************************************************************************)
(* Model of the uinput keyboard Sender (src/src/sender/sender_uinput.cpp). *)
(*                                                                         *)
(* One Sender instance is modelled.  Its unique_ptr<Impl> is a sequence of *)
(* length 0 (null, the moved-from Sender) or 1 (the Impl object).  The     *)
(* device is observed through `events`, the sequence of input_event        *)
(* records handed to write(2) on the uinput descriptor.  Every public      *)
(* method is one action; the helper operators below are the private        *)
(* methods it calls, applied to a record [m_impl, events, ret].            *)
(***************************************************************************)
EXTENDS Integers, Sequences, FiniteSets, TLC

\* Number of public calls made on the instance in one behaviour.
MaxCalls == 2

(***************************************************************************)
(* Key / Modifier taxonomy                                                 *)
(***************************************************************************)
\* Modifier is a bit mask in the code; a mask is modelled as the set of its bits.
Modifiers == {"Shift", "Ctrl", "Alt", "Super"}

Masks == SUBSET Modifiers

ModifierKeys ==
  {"ShiftLeft", "ShiftRight", "CtrlLeft", "CtrlRight",
   "AltLeft", "AltRight", "SuperLeft", "SuperRight"}

\* The keys handed to the public methods.  "Unknown" is Key::Unknown, which no
\* key map ever contains.
Keys == ModifierKeys \cup {"C", "Unknown"}

\* The arguments combo is called with: no modifier, one, two, all four; a
\* mapped key, the unmapped key and a key that is itself a modifier.
ComboMasks == {{}, {"Ctrl"}, {"Shift", "Alt"}, Modifiers}

ComboKeys == {"C", "Unknown", "CtrlLeft"}

\* The threads a call may be issued from; the Sender is constructed on "main".
Threads == {"main", "worker"}

\* hasModifier(state, flag): flag is one of the four bits.
hasModifier(state, flag) == flag \in state

\* The switch with a default branch that touches the Shift bit.
ModifierBitDefaultShift(key) ==
  CASE key \in {"ShiftLeft", "ShiftRight"} -> {"Shift"}
    [] key \in {"CtrlLeft", "CtrlRight"}   -> {"Ctrl"}
    [] key \in {"AltLeft", "AltRight"}     -> {"Alt"}
    [] key \in {"SuperLeft", "SuperRight"} -> {"Super"}
    [] OTHER                               -> {"Shift"}

\* The switch of keyDown/keyUp: the ledger bit of a key, no bit for a
\* non-modifier key.
ModifierBit(key) ==
  CASE key \in {"ShiftLeft", "ShiftRight"} -> {"Shift"}
    [] key \in {"CtrlLeft", "CtrlRight"}   -> {"Ctrl"}
    [] key \in {"AltLeft", "AltRight"}     -> {"Alt"}
    [] key \in {"SuperLeft", "SuperRight"} -> {"Super"}
    [] OTHER                               -> {}

(***************************************************************************)
(* Key map construction (Impl::initKeyMap)                                 *)
(***************************************************************************)
\* The static fallback table, restricted to the Keys of this model; the
\* values are the KEY_* codes of linux/input-event-codes.h.
FallbackTable ==
  [k \in ModifierKeys \cup {"Enter", "Escape", "C", "I", "J", "Z", "Num4",
                             "Apostrophe"} |->
     CASE k = "Enter"      -> 28
       [] k = "Escape"     -> 1
       [] k = "ShiftLeft"  -> 42
       [] k = "ShiftRight" -> 54
       [] k = "CtrlLeft"   -> 29
       [] k = "CtrlRight"  -> 97
       [] k = "AltLeft"    -> 56
       [] k = "AltRight"   -> 100
       [] k = "SuperLeft"  -> 125
       [] k = "SuperRight" -> 126
       [] k = "C"          -> 46
       [] k = "I"          -> 23
       [] k = "J"          -> 36
       [] k = "Z"          -> 44
       [] k = "Num4"       -> 5
       [] k = "Apostrophe" -> 40]

\* The order in which initKeyMap applies the fallback table.
FallbackOrder ==
  <<"Enter", "Escape", "ShiftLeft", "ShiftRight", "CtrlLeft", "CtrlRight",
    "AltLeft", "AltRight", "SuperLeft", "SuperRight", "C", "I", "J", "Z",
    "Num4", "Apostrophe">>

\* mapKeysymToKey on the keysyms the modelled layouts produce: letters map by
\* the alphabetic ranges (either case), digits by the digit range, Return,
\* Escape and apostrophe by the switch, anything else (a dead key, an
\* accented letter) falls through to Key::Unknown.
mapKeysymToKey(sym) ==
  CASE sym \in {"c", "C"} -> "C"
    [] sym \in {"i", "I"} -> "I"
    [] sym \in {"j", "J"} -> "J"
    [] sym \in {"z", "Z"} -> "Z"
    [] sym = "Return"     -> "Enter"
    [] sym = "Escape"     -> "Escape"
    [] sym = "4"          -> "Num4"
    [] sym = "apostrophe" -> "Apostrophe"
    [] OTHER              -> "Unknown"

\* What xkbcommon gives the constructor: whether the context, the keymap and
\* the state could be created, the keycode range and the symbol of each
\* keycode ("NoSymbol" for none).
XkbUnavailable ==
  [ctx |-> FALSE, keymap |-> FALSE, state |-> FALSE,
   min |-> 8, max |-> 7, sym |-> [c \in {} |-> "NoSymbol"]]

\* A Dvorak fragment: the physical I key (xkb 31) produces c, the physical G
\* key (xkb 42) produces i, the physical C key (xkb 54) produces j, the
\* physical slash key (xkb 61) produces z, the physical Q key (xkb 24)
\* produces apostrophe, the digit row is where the fallback table has it
\* (4 on xkb 13), Return is on xkb 36 and xkb 9 produces Escape.
XkbDvorak ==
  [ctx |-> TRUE, keymap |-> TRUE, state |-> TRUE,
   min |-> 8, max |-> 61,
   sym |-> [c \in 8..61 |->
              CASE c = 31 -> "c"
                [] c = 36 -> "Return"
                [] c = 42 -> "i"
                [] c = 54 -> "j"
                [] c = 61 -> "z"
                [] c = 24 -> "apostrophe"
                [] c = 13 -> "4"
                [] c = 9  -> "Escape"
                [] OTHER  -> "NoSymbol"]]

\* A French AZERTY fragment: the digit row produces punctuation without
\* Shift, so the physical 4 key (xkb 13) produces apostrophe and no keycode
\* produces the digit 4; xkb 11 produces eacute, xkb 9 Escape, xkb 36 Return.
XkbAzerty ==
  [ctx |-> TRUE, keymap |-> TRUE, state |-> TRUE,
   min |-> 8, max |-> 36,
   sym |-> [c \in 8..36 |->
              CASE c = 9  -> "Escape"
                [] c = 11 -> "eacute"
                [] c = 13 -> "apostrophe"
                [] c = 36 -> "Return"
                [] OTHER  -> "NoSymbol"]]

Layouts == {XkbUnavailable, XkbDvorak}

\* static_cast<int>(xkbKey - 8) on a 32-bit unsigned keycode.  From 8 up
\* the difference is the evdev code.  Below 8 the unsigned difference wraps
\* to 2^32 - d with d = 8 - xkbKey, a value above INT_MAX whose conversion
\* to int reads back as -d.
evdevCodeOf(xkbKey) ==
  IF xkbKey >= 8
    THEN xkbKey - 8
    ELSE LET d == 8 - xkbKey IN 0 - d

\* setIfMissing(k, v)
setIfMissing(map, k, v) ==
  IF k \in DOMAIN map THEN map
  ELSE [x \in DOMAIN map \cup {k} |-> IF x = k THEN v ELSE map[x]]

\* A discovery step that stores the code whether or not the Key has one.
discoverStepOverwrite(map, xkb, xkbKey) ==
  LET sym    == xkb.sym[xkbKey]
      mapped == mapKeysymToKey(sym)
      code   == evdevCodeOf(xkbKey)
  IN IF sym = "NoSymbol" \/ mapped = "Unknown" \/ code <= 0
       THEN map
       ELSE [x \in DOMAIN map \cup {mapped} |->
               IF x = mapped THEN code ELSE map[x]]

\* A discovery step without the `evdevCode > 0` test.
discoverStepAnyCode(map, xkb, xkbKey) ==
  LET sym    == xkb.sym[xkbKey]
      mapped == mapKeysymToKey(sym)
      code   == evdevCodeOf(xkbKey)
  IN IF sym = "NoSymbol" \/ mapped = "Unknown"
       THEN map
       ELSE IF mapped \in DOMAIN map
              THEN map
              ELSE [x \in DOMAIN map \cup {mapped} |->
                      IF x = mapped THEN code ELSE map[x]]

\* One iteration of the discovery loop, for keycode xkbKey.
discoverStep(map, xkb, xkbKey) ==
  LET sym    == xkb.sym[xkbKey]
      mapped == mapKeysymToKey(sym)
      code   == evdevCodeOf(xkbKey)
  IN IF sym = "NoSymbol" \/ mapped = "Unknown" \/ code <= 0
       THEN map
       ELSE IF mapped \in DOMAIN map
              THEN map
              ELSE [x \in DOMAIN map \cup {mapped} |->
                      IF x = mapped THEN code ELSE map[x]]

\* The discovery loop: keycodes min..max ascending, first code of a Key kept.
\* The keycodes without a symbol are passed over (`continue`) with the map as
\* is, so the loop goes from one keycode that has a symbol to the next.
RECURSIVE discover(_, _, _)
discover(map, xkb, xkbKey) ==
  LET withSym == {y \in xkbKey..xkb.max : xkb.sym[y] # "NoSymbol"}
  IN IF withSym = {} THEN map
     ELSE LET next == CHOOSE y \in withSym : \A z \in withSym : y <= z
          IN discover(discoverStep(map, xkb, next), xkb, next + 1)

\* A fallback step that only ever fills an empty map.
fallbackStepOnlyIfEmpty(map, i) ==
  IF DOMAIN map = {}
    THEN setIfMissing(map, FallbackOrder[i], FallbackTable[FallbackOrder[i]])
    ELSE map

\* The i-th setIfMissing call of the fallback block.
fallbackStep(map, i) ==
  setIfMissing(map, FallbackOrder[i], FallbackTable[FallbackOrder[i]])

RECURSIVE fillFallback(_, _)
fillFallback(map, i) ==
  IF i > Len(FallbackOrder) THEN map
  ELSE fillFallback(fallbackStep(map, i), i + 1)

\* initKeyMap: clear, discover when xkbcommon is available, then the fallback
\* table for what is still missing.
initKeyMap(xkb) ==
  LET empty      == [k \in {} |-> 0]
      discovered == IF xkb.ctx /\ xkb.keymap /\ xkb.state
                      THEN discover(empty, xkb, xkb.min)
                      ELSE empty
  IN fillFallback(discovered, 1)

(***************************************************************************)
(* Impl                                                                    *)
(***************************************************************************)
\* Impl::Impl(): fd is the result of open(); when it failed the constructor
\* returns before initKeyMap and the map stays empty.
ImplCtor(fd, xkb) ==
  [fd          |-> fd,
   currentMods |-> {},
   keyDelayUs  |-> 1000,
   keyMap      |-> IF fd < 0 THEN [k \in {} |-> 0] ELSE initKeyMap(xkb)]

\* linuxKeyCodeFor(key)
linuxKeyCodeFor(impl, key) ==
  IF key \in DOMAIN impl.keyMap THEN impl.keyMap[key] ELSE -1

\* emit(type, code, val): one write(2) of an input_event.  `mods` is not part
\* of the event: it records activeModifiers() at the moment of the write.
\* On fd < 0 the write fails (EBADF) and nothing reaches a device.
emit(s, type, code, val) ==
  IF s.m_impl[1].fd < 0 THEN s
  ELSE [s EXCEPT !.events =
          Append(@, [type |-> type, code |-> code % 65536, value |-> val,
                     mods |-> s.m_impl[1].currentMods])]

\* sync(): EV_SYN / SYN_REPORT / 0
sync(s) == emit(s, "EV_SYN", 0, 0)

\* sendKey without the test of the resolved code: an unmapped key is written
\* with the code -1 converted to unsigned short.
sendKeyNoCodeCheck(s, key, down) ==
  IF s.m_impl[1].fd < 0 THEN [s EXCEPT !.ret = FALSE]
  ELSE LET code == linuxKeyCodeFor(s.m_impl[1], key)
       IN [sync(emit(s, "EV_KEY", code, IF down THEN 1 ELSE 0))
             EXCEPT !.ret = TRUE]

\* sendKey resolving the code with keyMap[key], which inserts a 0 entry for
\* a Key the map does not have.
sendKeyInsertsDefault(s, key, down) ==
  IF s.m_impl[1].fd < 0 THEN [s EXCEPT !.ret = FALSE]
  ELSE LET km0  == s.m_impl[1].keyMap
           km1  == IF key \in DOMAIN km0 THEN km0
                   ELSE [x \in DOMAIN km0 \cup {key} |->
                           IF x = key THEN 0 ELSE km0[x]]
           s1   == [s EXCEPT !.m_impl[1].keyMap = km1]
           code == km1[key]
       IN IF code < 0 THEN [s1 EXCEPT !.ret = FALSE]
          ELSE [sync(emit(s1, "EV_KEY", code, IF down THEN 1 ELSE 0))
                  EXCEPT !.ret = TRUE]

\* sendKey that leaves the sync report to a later flush().
sendKeyWithoutSync(s, key, down) ==
  IF s.m_impl[1].fd < 0 THEN [s EXCEPT !.ret = FALSE]
  ELSE LET code == linuxKeyCodeFor(s.m_impl[1], key)
       IN IF code < 0 THEN [s EXCEPT !.ret = FALSE]
          ELSE [emit(s, "EV_KEY", code, IF down THEN 1 ELSE 0)
                  EXCEPT !.ret = TRUE]

\* sendKey(key, down)
sendKey(s, key, down) ==
  IF s.m_impl[1].fd < 0 THEN [s EXCEPT !.ret = FALSE]
  ELSE LET code == linuxKeyCodeFor(s.m_impl[1], key)
       IN IF code < 0 THEN [s EXCEPT !.ret = FALSE]
          ELSE [sync(emit(s, "EV_KEY", code, IF down THEN 1 ELSE 0))
                  EXCEPT !.ret = TRUE]

\* delay(): sleeps keyDelayUs microseconds; no state changes.
delay(s) == s

(***************************************************************************)
(* Sender: the public methods, as operators on [m_impl, events, ret]       *)
(***************************************************************************)
\* activeModifiers()
activeModifiers(s) ==
  IF s.m_impl # <<>> THEN s.m_impl[1].currentMods ELSE {}

\* isReady(): m_impl && m_impl->fd >= 0
isReady(s) == s.m_impl # <<>> /\ s.m_impl[1].fd >= 0

\* A requestPermissions() that reports the permission as granted.
requestPermissionsAlwaysTrue(s) == [s EXCEPT !.ret = TRUE]

\* requestPermissions(): return isReady()
requestPermissions(s) == [s EXCEPT !.ret = isReady(s)]

\* keyDown that updates the ledger only when the emission succeeded.
keyDownOnSuccess(s, key) ==
  IF s.m_impl = <<>> THEN [s EXCEPT !.ret = FALSE]
  ELSE LET r == sendKey(s, key, TRUE)
       IN IF r.ret
            THEN [r EXCEPT !.m_impl[1].currentMods = @ \cup ModifierBit(key)]
            ELSE r

\* keyDown(key): the ledger bit is set first, then the key is sent.
keyDown(s, key) ==
  IF s.m_impl = <<>> THEN [s EXCEPT !.ret = FALSE]
  ELSE sendKey([s EXCEPT !.m_impl[1].currentMods = @ \cup ModifierBit(key)],
               key, TRUE)

\* keyUp that clears the ledger bit only when the emission succeeded.
keyUpOnSuccess(s, key) ==
  IF s.m_impl = <<>> THEN [s EXCEPT !.ret = FALSE]
  ELSE LET r == sendKey(s, key, FALSE)
       IN IF r.ret
            THEN [r EXCEPT !.m_impl[1].currentMods = @ \ ModifierBit(key)]
            ELSE r

\* The codes the device holds down: a press with no later release.
HeldOnDevice(seq) ==
  {seq[i].code : i \in {j \in 1..Len(seq) :
     /\ seq[j].type = "EV_KEY" /\ seq[j].value = 1
     /\ \A n \in (j + 1)..Len(seq) :
          ~(seq[n].type = "EV_KEY" /\ seq[n].code = seq[j].code
            /\ seq[n].value = 0)}}

\* keyUp that counts variants: the class bit stays set while another key of
\* the class is still held on the device.
keyUpCountsVariants(s, key) ==
  IF s.m_impl = <<>> THEN [s EXCEPT !.ret = FALSE]
  ELSE LET r == sendKey(s, key, FALSE)
           others == {k \in ModifierKeys \ {key} :
                        /\ ModifierBit(k) = ModifierBit(key)
                        /\ linuxKeyCodeFor(r.m_impl[1], k) \in HeldOnDevice(r.events)}
       IN IF others = {}
            THEN [r EXCEPT !.m_impl[1].currentMods = @ \ ModifierBit(key)]
            ELSE r

\* keyUp(key): the key is sent first, then the ledger bit is cleared.
keyUp(s, key) ==
  IF s.m_impl = <<>> THEN [s EXCEPT !.ret = FALSE]
  ELSE LET r == sendKey(s, key, FALSE)
       IN [r EXCEPT !.m_impl[1].currentMods = @ \ ModifierBit(key)]

\* tap with the two halves in the wrong order.
tapUpFirst(s, key) ==
  LET u == keyUp(s, key)
  IN IF ~u.ret THEN u ELSE keyDown(delay(u), key)

\* tap(key): keyDown, and only when it succeeded the delay and keyUp.
tap(s, key) ==
  LET d == keyDown(s, key)
  IN IF ~d.ret THEN d ELSE keyUp(delay(d), key)

\* One line of holdModifier that records the bit only when the key went out.
holdOneOnSuccess(acc, mod, flag, key) ==
  IF hasModifier(mod, flag)
    THEN LET r == keyDownOnSuccess(acc.s, key)
         IN [s |-> r, ok |-> acc.ok /\ r.ret]
    ELSE acc

\* One `if (hasModifier(mod, flag)) ok &= keyDown(key)` line of holdModifier:
\* acc is [s, ok].
holdOne(acc, mod, flag, key) ==
  IF hasModifier(mod, flag)
    THEN LET r == keyDown(acc.s, key)
         IN [s |-> r, ok |-> acc.ok /\ r.ret]
    ELSE acc

\* holdModifier that stops at the first failing bit.
holdModifierShortCircuit(s, mod) ==
  LET a0 == [s |-> s, ok |-> TRUE]
      a1 == holdOne(a0, mod, "Shift", "ShiftLeft")
      a2 == IF a1.ok THEN holdOne(a1, mod, "Ctrl", "CtrlLeft") ELSE a1
      a3 == IF a2.ok THEN holdOne(a2, mod, "Alt", "AltLeft") ELSE a2
      a4 == IF a3.ok THEN holdOne(a3, mod, "Super", "SuperLeft") ELSE a3
  IN [a4.s EXCEPT !.ret = a4.ok]

\* holdModifier(mod)
holdModifier(s, mod) ==
  LET a0 == [s |-> s, ok |-> TRUE]
      a1 == holdOne(a0, mod, "Shift", "ShiftLeft")
      a2 == holdOne(a1, mod, "Ctrl", "CtrlLeft")
      a3 == holdOne(a2, mod, "Alt", "AltLeft")
      a4 == holdOne(a3, mod, "Super", "SuperLeft")
  IN [a4.s EXCEPT !.ret = a4.ok]

\* One `if (hasModifier(mod, flag)) ok &= keyUp(key)` line of releaseModifier.
releaseOne(acc, mod, flag, key) ==
  IF hasModifier(mod, flag)
    THEN LET r == keyUp(acc.s, key)
         IN [s |-> r, ok |-> acc.ok /\ r.ret]
    ELSE acc

\* releaseModifier(mod)
releaseModifier(s, mod) ==
  LET a0 == [s |-> s, ok |-> TRUE]
      a1 == releaseOne(a0, mod, "Shift", "ShiftLeft")
      a2 == releaseOne(a1, mod, "Ctrl", "CtrlLeft")
      a3 == releaseOne(a2, mod, "Alt", "AltLeft")
      a4 == releaseOne(a3, mod, "Super", "SuperLeft")
  IN [a4.s EXCEPT !.ret = a4.ok]

\* releaseAllModifiers(): releaseModifier(Shift | Ctrl | Alt | Super)
releaseAllModifiers(s) == releaseModifier(s, Modifiers)

\* combo that releases the modifiers before it taps the key.
comboReleaseFirst(s, mods, key) ==
  LET h == holdModifier(s, mods)
  IN IF ~h.ret THEN h
     ELSE LET r == releaseModifier(delay(h), mods)
              t == tap(delay(r), key)
          IN t

\* combo(mods, key): returns early when holdModifier failed, otherwise tap and
\* releaseModifier, the result being the tap's.
combo(s, mods, key) ==
  LET h == holdModifier(s, mods)
  IN IF ~h.ret THEN h
     ELSE LET t == tap(delay(h), key)
              r == releaseModifier(delay(t), mods)
          IN [r EXCEPT !.ret = t.ret]

\* typeText that tries to produce the text with key taps.
typeTextTapsKeys(s, text) == tap(s, "ShiftLeft")

\* typeText(u32string), typeText(string), typeCharacter(char32_t): the
\* argument is ignored and nothing but the return value is produced.
typeText(s, text) == [s EXCEPT !.ret = FALSE]

typeTextUtf8(s, utf8Text) == [s EXCEPT !.ret = FALSE]

typeCharacter(s, codepoint) == [s EXCEPT !.ret = FALSE]

\* capabilities(): the two fields the model uses.
capabilities(s) ==
  [canInjectKeys |-> (s.m_impl # <<>> /\ s.m_impl[1].fd >= 0),
   canInjectText |-> FALSE]

\* flush(): a sync report when the Impl is there.  sync() writes whatever fd is.
flush(s) == IF s.m_impl # <<>> THEN sync(s) ELSE s

\* setKeyDelay(delayUs)
setKeyDelay(s, delayUs) ==
  IF s.m_impl # <<>> THEN [s EXCEPT !.m_impl[1].keyDelayUs = delayUs] ELSE s

(***************************************************************************)
(* State                                                                   *)
(***************************************************************************)
VARIABLES
  m_impl,    \* Sender::m_impl: <<>> when null, <<Impl>> otherwise
  events,    \* the input_events written to the uinput device, oldest first
  ret,       \* the value returned by the last call that returns a bool
  lastOp,    \* the last call made on the instance and its arguments
  calls,     \* number of calls made so far
  crashed,   \* the process died on a null m_impl dereference
  prevImpl,  \* m_impl as it was when the last call started
  prevLen,   \* Len(events) when the last call started
  km,        \* an initKeyMap() run followed step by step (Key map builds)
  lr,        \* a detectXkbRuleNames() call followed step by step, or <<>>
  ls         \* a Listener and the threads that use it, or <<>>

senderVars ==
  <<m_impl, events, ret, lastOp, calls, crashed, prevImpl, prevLen>>

vars == <<m_impl, events, ret, lastOp, calls, crashed, prevImpl, prevLen,
          km, lr, ls>>

\* No initKeyMap() run is being followed.
KmIdle ==
  [pc |-> "idle", xkb |-> XkbUnavailable, map |-> [k \in {} |-> 0],
   xkbKey |-> 0, idx |-> 0, builds |-> 0, old |-> [k \in {} |-> 0]]

Machine == [m_impl |-> m_impl, events |-> events, ret |-> ret]

Op(name, key, mods, thread) ==
  [name |-> name, key |-> key, mods |-> mods, thread |-> thread]

\* `Sender sender;` : Impl::Impl() with the two things the environment
\* decides, whether /dev/uinput opens and what xkbcommon reports.
Init ==
  /\ \E fd \in {-1, 3}, xkb \in Layouts : m_impl = <<ImplCtor(fd, xkb)>>
  /\ events = <<>>
  /\ ret = FALSE
  /\ lastOp = Op("Sender", "-", {}, "main")
  /\ calls = 0
  /\ crashed = FALSE
  /\ prevImpl = <<>>
  /\ prevLen = 0
  /\ km = KmIdle
  /\ lr = <<>>
  /\ ls = <<>>

\* A call `op` that takes the instance from Machine to r.
Call(op, r) ==
  /\ ~crashed
  /\ calls < MaxCalls
  /\ m_impl' = r.m_impl
  /\ events' = r.events
  /\ ret' = r.ret
  /\ lastOp' = op
  /\ calls' = calls + 1
  /\ prevImpl' = m_impl
  /\ prevLen' = Len(events)
  /\ UNCHANGED <<crashed, km, lr, ls>>

KeyDown == \E k \in Keys : Call(Op("keyDown", k, {}, "main"), keyDown(Machine, k))

KeyUp == \E k \in Keys : Call(Op("keyUp", k, {}, "main"), keyUp(Machine, k))

Tap ==
  \E k \in Keys, th \in Threads : Call(Op("tap", k, {}, th), tap(Machine, k))

HoldModifier ==
  \E mod \in Masks :
    Call(Op("holdModifier", "-", mod, "main"), holdModifier(Machine, mod))

ReleaseModifier ==
  \E mod \in Masks :
    Call(Op("releaseModifier", "-", mod, "main"), releaseModifier(Machine, mod))

ReleaseAllModifiers ==
  Call(Op("releaseAllModifiers", "-", {}, "main"), releaseAllModifiers(Machine))

\* combo(mods, key) where every m_impl->delay() it reaches has an Impl.
Combo ==
  \E mods \in ComboMasks, k \in ComboKeys :
    /\ ~(m_impl = <<>> /\ mods = {})
    /\ Call(Op("combo", k, mods, "main"), combo(Machine, mods, k))

\* combo(None, key) on a null m_impl: holdModifier(None) returns true and
\* m_impl->delay() dereferences the null pointer.  Undefined behaviour: the
\* process dies, or the read goes unnoticed and the call runs on (tap fails
\* in keyDown, releaseModifier(None) does nothing) and returns false.
ComboNullImpl ==
  \E k \in ComboKeys :
    /\ m_impl = <<>>
    /\ \/ /\ ~crashed
          /\ calls < MaxCalls
          /\ crashed' = TRUE
          /\ lastOp' = Op("combo", k, {}, "main")
          /\ calls' = calls + 1
          /\ prevImpl' = m_impl
          /\ prevLen' = Len(events)
          /\ UNCHANGED <<m_impl, events, ret, km, lr, ls>>
       \/ Call(Op("combo", k, {}, "main"), [Machine EXCEPT !.ret = FALSE])

TypeText ==
  \E text \in {<<97>>} :
    Call(Op("typeText", "-", {}, "main"), typeText(Machine, text))

TypeTextUtf8 ==
  \E utf8Text \in {"a"} :
    Call(Op("typeTextUtf8", "-", {}, "main"), typeTextUtf8(Machine, utf8Text))

TypeCharacter ==
  \E codepoint \in {97} :
    Call(Op("typeCharacter", "-", {}, "main"), typeCharacter(Machine, codepoint))

Flush == Call(Op("flush", "-", {}, "main"), flush(Machine))

SetKeyDelay ==
  \E delayUs \in {0, 1000} :
    Call(Op("setKeyDelay", "-", {}, "main"), setKeyDelay(Machine, delayUs))

\* isReady(), its result kept in ret.
IsReady ==
  Call(Op("isReady", "-", {}, "main"), [Machine EXCEPT !.ret = isReady(Machine)])

RequestPermissions ==
  Call(Op("requestPermissions", "-", {}, "main"), requestPermissions(Machine))

\* `Sender other = std::move(sender);` : the defaulted move constructor
\* leaves this instance with a null m_impl.
MoveFrom == Call(Op("move", "-", {}, "main"), [Machine EXCEPT !.m_impl = <<>>])

Next ==
  \/ KeyDown
  \/ KeyUp
  \/ Tap
  \/ HoldModifier
  \/ ReleaseModifier
  \/ ReleaseAllModifiers
  \/ Combo
  \/ ComboNullImpl
  \/ TypeText
  \/ TypeTextUtf8
  \/ TypeCharacter
  \/ Flush
  \/ SetKeyDelay
  \/ IsReady
  \/ RequestPermissions
  \/ MoveFrom

Spec == Init /\ [][Next]_vars

(***************************************************************************)
(* Observations used by the properties                                     *)
(***************************************************************************)
\* The instance as it was when the last call started.
Before == [m_impl |-> prevImpl, events |-> SubSeq(events, 1, prevLen), ret |-> FALSE]

ModsBefore == activeModifiers(Before)

ModsNow == activeModifiers(Machine)

\* What the last call wrote to the device.
Emitted == SubSeq(events, prevLen + 1, Len(events))

\* An event as the device sees it (without the recorded ledger value).
Wire(e) == [type |-> e.type, code |-> e.code, value |-> e.value]

WireSeq(seq) == [i \in 1..Len(seq) |-> Wire(seq[i])]

IsKeyEvent(e) == e.type = "EV_KEY"

KeyEvents(seq) == SelectSeq(seq, IsKeyEvent)

KeyEv(code, down) ==
  [type |-> "EV_KEY", code |-> code, value |-> IF down THEN 1 ELSE 0]

SynReport == [type |-> "EV_SYN", code |-> 0, value |-> 0]

\* The key resolves on the instance the last call started on.
MappedBefore(key) == prevImpl # <<>> /\ key \in DOMAIN prevImpl[1].keyMap

CodeBefore(key) == prevImpl[1].keyMap[key]

(***************************************************************************)
(* C1                                                                      *)
(***************************************************************************)
\* C1: when tap(k) of a modifier key k returns false, the key-up half has
\* still been executed, so k's bit is not set in activeModifiers().
C1_FailedTapLeavesNoBit ==
  (lastOp.name = "tap" /\ ~crashed /\ ~ret /\ lastOp.key \in ModifierKeys)
    => ModifierBit(lastOp.key) \cap ModsNow = {}

(***************************************************************************)
(* C2                                                                      *)
(***************************************************************************)
\* C2: when combo(mods, key) returns, whatever its outcome, the release
\* phase has run and no bit of mods is set in activeModifiers().
C2_ComboAlwaysReleases ==
  (lastOp.name = "combo" /\ ~crashed) => lastOp.mods \cap ModsNow = {}

(***************************************************************************)
(* C3                                                                      *)
(***************************************************************************)
\* C3: after releaseAllModifiers() returns, activeModifiers() is None,
\* whatever was called before and whether or not the backend is ready.
C3_ReleaseAllClearsLedger ==
  lastOp.name = "releaseAllModifiers" => ModsNow = {}

\* releaseAllModifiers() ran on a Sender that is not ready, with Shift and
\* at least one other bit set by earlier failed calls, and returned false.
C3_Witness ==
  /\ lastOp.name = "releaseAllModifiers"
  /\ prevImpl # <<>> /\ prevImpl[1].fd < 0
  /\ "Shift" \in ModsBefore /\ Cardinality(ModsBefore) >= 2
  /\ ~ret

(***************************************************************************)
(* C4                                                                      *)
(***************************************************************************)
\* C4: on a Sender that has its Impl, keyDown of a left/right
\* Shift/Ctrl/Alt/Super key sets exactly that key's bit of activeModifiers()
\* and keyUp clears exactly it, whether the call returned true or false.
C4_LedgerUnconditional ==
  (prevImpl # <<>> /\ lastOp.key \in ModifierKeys) =>
    /\ lastOp.name = "keyDown" => ModsNow = ModsBefore \cup ModifierBit(lastOp.key)
    /\ lastOp.name = "keyUp" => ModsNow = ModsBefore \ ModifierBit(lastOp.key)

\* keyUp of a modifier key whose bit was set failed (the Sender is not
\* ready) and the bit is cleared all the same.
C4_Witness ==
  /\ lastOp.name = "keyUp" /\ lastOp.key \in ModifierKeys
  /\ prevImpl # <<>>
  /\ ModifierBit(lastOp.key) \subseteq ModsBefore
  /\ ~ret
  /\ ModifierBit(lastOp.key) \cap ModsNow = {}

(***************************************************************************)
(* C5                                                                      *)
(***************************************************************************)
\* C5: on a ready Sender with no modifier active, combo(Ctrl, C) returns
\* true and writes exactly four key events, Ctrl-down, C-down, C-up, Ctrl-up,
\* each followed by its sync report; activeModifiers() reads Ctrl at every
\* write from the first key event to the last one and None after the call.
C5_ComboCtrlC ==
  (/\ lastOp.name = "combo" /\ lastOp.mods = {"Ctrl"} /\ lastOp.key = "C"
   /\ isReady(Before) /\ ModsBefore = {})
    => /\ ~crashed /\ ret
       /\ WireSeq(KeyEvents(Emitted)) =
            << KeyEv(CodeBefore("CtrlLeft"), TRUE), KeyEv(CodeBefore("C"), TRUE),
               KeyEv(CodeBefore("C"), FALSE), KeyEv(CodeBefore("CtrlLeft"), FALSE) >>
       /\ Len(Emitted) = 8
       /\ \A i \in 1..7 : Emitted[i].mods = {"Ctrl"}
       /\ ModsNow = {}

\* combo(Ctrl, C) has run on a ready Sender whose layout was discovered (C
\* is not on its fallback code) after an earlier call, and wrote its events.
C5_Witness ==
  /\ lastOp.name = "combo" /\ lastOp.mods = {"Ctrl"} /\ lastOp.key = "C"
  /\ isReady(Before) /\ ModsBefore = {}
  /\ calls = 2
  /\ CodeBefore("C") # FallbackTable["C"]
  /\ Len(Emitted) = 8

(***************************************************************************)
(* C6                                                                      *)
(***************************************************************************)
\* C6: keyDown, keyUp and tap of a key that is not a left/right
\* Shift/Ctrl/Alt/Super variant leave activeModifiers() as it was before the
\* call, whether the call returned true or false.
C6_NonModifierKeepsLedger ==
  (lastOp.name \in {"keyDown", "keyUp", "tap"} /\ lastOp.key \notin ModifierKeys)
    => ModsNow = ModsBefore

\* A non-modifier key was tapped while modifiers were held.
C6_Witness ==
  /\ lastOp.name = "tap" /\ lastOp.key \notin ModifierKeys
  /\ ModsBefore # {}
  /\ ModsNow = ModsBefore

(***************************************************************************)
(* C7                                                                      *)
(***************************************************************************)
\* C7: keyDown(k) and keyUp(k) return true exactly when the backend is ready
\* and k has a key map entry; when they return false they have written
\* nothing to the device, neither a key event nor a sync report.
C7_FailClosed ==
  lastOp.name \in {"keyDown", "keyUp"} =>
    /\ ret = (isReady(Before) /\ MappedBefore(lastOp.key))
    /\ ~ret => Emitted = <<>>

\* keyDown of an unmapped key on a ready Sender returned false.
C7_Witness ==
  /\ lastOp.name = "keyDown"
  /\ isReady(Before) /\ ~MappedBefore(lastOp.key)
  /\ ~ret /\ Emitted = <<>>

(***************************************************************************)
(* C8                                                                      *)
(***************************************************************************)
\* C8: capabilities().canInjectText is false, and typeText (both overloads)
\* and typeCharacter return false, write nothing to the device and leave
\* the Impl (modifier ledger, key map, delay) as it was.
C8_TextInjectionUnsupported ==
  /\ ~capabilities(Machine).canInjectText
  /\ lastOp.name \in {"typeText", "typeTextUtf8", "typeCharacter"} =>
       /\ ~ret
       /\ Emitted = <<>>
       /\ m_impl = prevImpl

\* typeText was called on a ready Sender right after a call that returned
\* true.
C8_Witness ==
  /\ lastOp.name = "typeText"
  /\ isReady(Before)
  /\ calls = 2 /\ ~ret /\ events # <<>>

(***************************************************************************)
(* C9                                                                      *)
(***************************************************************************)
ModifierOrder == <<"Shift", "Ctrl", "Alt", "Super">>

LeftOf(bit) == bit \o "Left"

RightOf(bit) == bit \o "Right"

\* The physical variant C9 names for a bit: the left one if mapped,
\* otherwise the right one if mapped, otherwise none.
VariantFor(bit) ==
  IF MappedBefore(LeftOf(bit)) THEN LeftOf(bit)
  ELSE IF MappedBefore(RightOf(bit)) THEN RightOf(bit)
  ELSE "none"

\* One bit's individual result: its variant exists and the backend is ready.
BitResult(bit) == isReady(Before) /\ VariantFor(bit) # "none"

\* The key events C9 expects of hold (down) / release (~down) of mask.
RECURSIVE ExpectedKeyEvents(_, _, _)
ExpectedKeyEvents(mask, down, i) ==
  IF i > Len(ModifierOrder) THEN <<>>
  ELSE LET bit == ModifierOrder[i]
       IN (IF bit \in mask /\ BitResult(bit)
             THEN <<KeyEv(CodeBefore(VariantFor(bit)), down)>>
             ELSE <<>>) \o ExpectedKeyEvents(mask, down, i + 1)

\* C9: holdModifier(mask) / releaseModifier(mask) press / release, for the
\* bits of mask in the order Shift, Ctrl, Alt, Super, the left variant if it
\* is mapped and otherwise a mapped variant; every bit of mask is attempted
\* (its ledger bit is set / cleared) even after an earlier one failed, and
\* the result is the conjunction of the individual results, true for None.
C9_HoldReleasePerBit ==
  lastOp.name \in {"holdModifier", "releaseModifier"} =>
    LET down == lastOp.name = "holdModifier"
    IN /\ WireSeq(KeyEvents(Emitted)) = ExpectedKeyEvents(lastOp.mods, down, 1)
       /\ Len(Emitted) = 2 * Len(KeyEvents(Emitted))
       /\ ret = (\A bit \in lastOp.mods : BitResult(bit))
       /\ prevImpl # <<>> =>
            ModsNow = IF down THEN ModsBefore \cup lastOp.mods
                              ELSE ModsBefore \ lastOp.mods

\* holdModifier of all four modifiers on a Sender that is not ready: the
\* first bit already failed and all four have been attempted.
C9_Witness ==
  /\ lastOp.name = "holdModifier" /\ lastOp.mods = Modifiers
  /\ prevImpl # <<>> /\ ~isReady(Before)
  /\ ~ret
  /\ ModsNow = Modifiers

(***************************************************************************)
(* C10                                                                     *)
(***************************************************************************)
\* C10: on a ready Sender, tap(k) of a mapped key k, from whichever thread
\* it is called, returns true and appends to what the device has received
\* so far exactly the key-down of k's code, its sync report, the key-up of
\* the same code and its sync report, so consecutive taps appear in call
\* order, pair after pair.
C10_TapAppendsDownUp ==
  [][ (/\ calls' = calls + 1
       /\ lastOp'.name = "tap"
       /\ isReady(Machine)
       /\ lastOp'.key \in DOMAIN m_impl[1].keyMap)
      => LET code == m_impl[1].keyMap[lastOp'.key]
         IN /\ ret' /\ ~crashed'
            /\ WireSeq(events') =
                 WireSeq(events) \o
                   <<KeyEv(code, TRUE), SynReport, KeyEv(code, FALSE), SynReport>>
    ]_vars

\* Two taps of different keys in a row, the second from the worker thread.
C10_Witness ==
  /\ lastOp.name = "tap" /\ lastOp.thread = "worker"
  /\ ret /\ calls = 2
  /\ prevLen = 4 /\ Len(events) = 8
  /\ WireSeq(SubSeq(events, 1, 4)) =
       <<KeyEv(CodeBefore("C"), TRUE), SynReport,
         KeyEv(CodeBefore("C"), FALSE), SynReport>>
  /\ events[5].code # events[1].code

(***************************************************************************)
(* keyDown / keyUp of a KeyWithModifier                                    *)
(* (include/axidev-io/keyboard/sender.hpp; the definitions are not part of *)
(* the sources, the operators follow section 4.4 of the specification)    *)
(***************************************************************************)
\* keyDown(KeyWithModifier) that presses the primary key before its modifiers.
keyDownKMKeyFirst(s, key, requiredMods) ==
  LET k == keyDown(s, key)
      h == holdModifier(k, requiredMods)
  IN [h EXCEPT !.ret = h.ret /\ k.ret]

\* keyDown(KeyWithModifier{key, requiredMods}): the required modifiers
\* first, in the enumeration order of the modifier bits, then the key.
keyDownKM(s, key, requiredMods) ==
  LET h == holdModifier(s, requiredMods)
      k == keyDown(h, key)
  IN [k EXCEPT !.ret = h.ret /\ k.ret]

\* keyUp(KeyWithModifier{key, requiredMods}): the key first, then the same
\* modifiers in the same order.
keyUpKM(s, key, requiredMods) ==
  LET k == keyUp(s, key)
      r == releaseModifier(k, requiredMods)
  IN [r EXCEPT !.ret = k.ret /\ r.ret]

KeyDownKM ==
  \E k \in ComboKeys, mods \in ComboMasks :
    Call(Op("keyDownKM", k, mods, "main"), keyDownKM(Machine, k, mods))

KeyUpKM ==
  \E k \in ComboKeys, mods \in ComboMasks :
    Call(Op("keyUpKM", k, mods, "main"), keyUpKM(Machine, k, mods))

NextKM ==
  \/ KeyDownKM
  \/ KeyUpKM

SpecKM == Init /\ [][NextKM]_vars

(***************************************************************************)
(* C11                                                                     *)
(***************************************************************************)
\* C11: keyDown(KeyWithModifier{k, mods}) writes the key-down of each
\* modifier of mods in the order Shift, Ctrl, Alt, Super and then the
\* key-down of k; keyUp writes the key-up of k and then the key-up of the
\* same modifiers in the same order; after keyDown the bits of mods are set
\* in activeModifiers() and after keyUp they are cleared.
C11_RequiredModsAroundKey ==
  /\ (lastOp.name = "keyDownKM" /\ prevImpl # <<>>) =>
       /\ lastOp.mods \subseteq ModsNow
       /\ (isReady(Before) /\ MappedBefore(lastOp.key)) =>
            WireSeq(KeyEvents(Emitted)) =
              ExpectedKeyEvents(lastOp.mods, TRUE, 1) \o
                <<KeyEv(CodeBefore(lastOp.key), TRUE)>>
  /\ (lastOp.name = "keyUpKM" /\ prevImpl # <<>>) =>
       /\ lastOp.mods \cap ModsNow = {}
       /\ (isReady(Before) /\ MappedBefore(lastOp.key)) =>
            WireSeq(KeyEvents(Emitted)) =
              <<KeyEv(CodeBefore(lastOp.key), FALSE)>> \o
                ExpectedKeyEvents(lastOp.mods, FALSE, 1)

\* keyUp({C, Shift|Alt}) on a ready Sender right after the matching keyDown:
\* C-up, ShiftLeft-up, AltLeft-up were written and the ledger is empty again.
C11_Witness ==
  /\ lastOp.name = "keyUpKM" /\ lastOp.key = "C" /\ lastOp.mods = {"Shift", "Alt"}
  /\ isReady(Before)
  /\ ModsBefore = {"Shift", "Alt"}
  /\ prevLen = 6 /\ Len(Emitted) = 6
  /\ ModsNow = {}

(***************************************************************************)
(* Key map builds: Impl::initKeyMap() followed statement by statement      *)
(***************************************************************************)
MaxBuilds == 2

\* The keysyms a keycode of the scanned layouts can produce: none, two
\* letters, and a dead key that mapKeysymToKey does not know.
KmSyms == {"NoSymbol", "c", "j", "dead_acute"}

\* xkbcommon failing at context, keymap or state creation.
KmFailures ==
  { [ctx |-> c, keymap |-> k, state |-> s, min |-> 8, max |-> 11,
     sym |-> [x \in 8..11 |-> "NoSymbol"]] :
      <<c, k, s>> \in {<<FALSE, FALSE, FALSE>>, <<TRUE, FALSE, FALSE>>,
                       <<TRUE, TRUE, FALSE>>} }

\* Keymaps whose lowest keycode is below the evdev offset: c or j on the
\* keycodes 6..9 (xkbKey - 8 wraps for 6 and 7, is 0 for 8 and 1 for 9).
KmLowLayouts ==
  { [ctx |-> TRUE, keymap |-> TRUE, state |-> TRUE, min |-> 6, max |-> 9,
     sym |-> f] : f \in [6..9 -> {"c", "j"}] }

\* Every layout over the keycodes 8..11 (evdev codes 0..3), the keymaps that
\* start below keycode 8, and the failures.
KmLayouts ==
  { [ctx |-> TRUE, keymap |-> TRUE, state |-> TRUE, min |-> 8, max |-> 11,
     sym |-> f] : f \in [8..11 -> KmSyms] } \cup KmLowLayouts \cup KmFailures

\* The layouts the system can be switched to between two builds.
KmSwitchLayouts == {XkbUnavailable, XkbDvorak, XkbAzerty}

\* A clear() that leaves the entries in place.
kmClearKeeps(map) == map

\* keyMap.clear()
kmClear(map) == [k \in {} |-> 0]

\* The sender is not part of a key map build.
NoSender ==
  /\ m_impl = <<>>
  /\ events = <<>>
  /\ ret = FALSE
  /\ lastOp = Op("-", "-", {}, "main")
  /\ calls = 0
  /\ crashed = FALSE
  /\ prevImpl = <<>>
  /\ prevLen = 0

\* initKeyMap() is entered on a freshly constructed Impl.
InitKeyMap ==
  /\ NoSender
  /\ lr = <<>>
  /\ ls = <<>>
  /\ \E xkb \in KmLayouts : km = [KmIdle EXCEPT !.pc = "clear", !.xkb = xkb]

\* keyMap.clear(), then the three xkbcommon objects are created.
KmClear ==
  /\ km.pc = "clear"
  /\ km' = [km EXCEPT
              !.map = kmClear(km.map),
              !.pc = IF km.xkb.ctx /\ km.xkb.keymap /\ km.xkb.state
                       THEN "scan" ELSE "fallback",
              !.xkbKey = km.xkb.min,
              !.idx = 1]
  /\ UNCHANGED <<senderVars, lr, ls>>

\* One iteration of `for (xkbKey = min; xkbKey <= max; ++xkbKey)`.
KmScan ==
  /\ km.pc = "scan"
  /\ km.xkbKey <= km.xkb.max
  /\ km' = [km EXCEPT !.map = discoverStep(km.map, km.xkb, km.xkbKey),
                      !.xkbKey = km.xkbKey + 1]
  /\ UNCHANGED <<senderVars, lr, ls>>

\* The loop condition fails; the xkbcommon objects are released.
KmScanEnd ==
  /\ km.pc = "scan"
  /\ km.xkbKey > km.xkb.max
  /\ km' = [km EXCEPT !.pc = "fallback"]
  /\ UNCHANGED <<senderVars, lr, ls>>

\* The next setIfMissing(...) line of the fallback block.
KmFallback ==
  /\ km.pc = "fallback"
  /\ km.idx <= Len(FallbackOrder)
  /\ km' = [km EXCEPT !.map = fallbackStep(km.map, km.idx),
                      !.idx = km.idx + 1]
  /\ UNCHANGED <<senderVars, lr, ls>>

\* initKeyMap() returns.
KmDone ==
  /\ km.pc = "fallback"
  /\ km.idx > Len(FallbackOrder)
  /\ km' = [km EXCEPT !.pc = "done", !.builds = km.builds + 1]
  /\ UNCHANGED <<senderVars, lr, ls>>

\* initKeyMap() is run again on the map it built.
KmRebuild ==
  /\ km.pc = "done"
  /\ km.builds < MaxBuilds
  /\ km' = [km EXCEPT !.pc = "clear", !.old = km.map]
  /\ UNCHANGED <<senderVars, lr, ls>>

\* initKeyMap() is run again after the system layout has been changed.
KmLayoutChange ==
  /\ km.pc = "done"
  /\ km.builds < MaxBuilds
  /\ \E l \in KmSwitchLayouts :
       /\ l # km.xkb
       /\ km' = [km EXCEPT !.pc = "clear", !.xkb = l, !.old = km.map]
  /\ UNCHANGED <<senderVars, lr, ls>>

NextKeyMap ==
  \/ KmClear
  \/ KmScan
  \/ KmScanEnd
  \/ KmFallback
  \/ KmDone
  \/ KmRebuild
  \/ KmLayoutChange

SpecKeyMap == InitKeyMap /\ [][NextKeyMap]_vars

\* The keycodes of the layout whose symbol maps to Key k with a usable code.
CodesFor(xkb, k) ==
  IF xkb.ctx /\ xkb.keymap /\ xkb.state
    THEN { evdevCodeOf(x) : x \in { y \in xkb.min..xkb.max :
              /\ xkb.sym[y] # "NoSymbol"
              /\ mapKeysymToKey(xkb.sym[y]) = k
              /\ evdevCodeOf(y) > 0 } }
    ELSE {}

Lowest(S) == CHOOSE c \in S : \A d \in S : c <= d

(***************************************************************************)
(* C12                                                                     *)
(***************************************************************************)
\* What a step of a build may do to the map: no statement of the discovery
\* loop or of the fallback block changes or drops an entry the map has, and
\* the map initKeyMap() returns holds, for a Key the layout produces, the
\* lowest code producing it, and the fallback code for any other Key.
C12_StepKeepsEntries ==
  /\ (km.pc \in {"scan", "fallback"}) =>
        \A k \in DOMAIN km.map :
           k \in DOMAIN km'.map /\ km'.map[k] = km.map[k]
  /\ (km.pc = "fallback" /\ km'.pc = "done") =>
        \A k \in DOMAIN km'.map :
           IF CodesFor(km'.xkb, k) # {}
             THEN km'.map[k] = Lowest(CodesFor(km'.xkb, k))
             ELSE k \in DOMAIN FallbackTable /\ km'.map[k] = FallbackTable[k]

\* C12: while the key map is built, a Key that already has a code is never
\* overwritten: the first (lowest) code discovered for a Key is kept, later
\* ones are discarded, and the fallback table only fills unmapped Keys.
C12_FirstCodeKept == [][C12_StepKeepsEntries]_vars

\* The layout produces c on two keycodes; the built map holds the lower code
\* and neither the higher one nor KEY_C of the fallback table.
C12_Witness ==
  /\ km.pc = "done"
  /\ km.xkb.ctx /\ km.xkb.keymap /\ km.xkb.state
  /\ CodesFor(km.xkb, "C") = {1, 3}
  /\ km.map["C"] = 1
  /\ FallbackTable["C"] = 46

(***************************************************************************)
(* C13                                                                     *)
(***************************************************************************)
\* C13: once the map has been built, every Key of the static fallback table
\* resolves to a code, whether discovery succeeded, failed at context,
\* keymap or state creation, or discovered nothing.
C13_FallbackKeysResolve ==
  km.pc = "done" =>
    \A k \in DOMAIN FallbackTable :
       /\ k \in DOMAIN km.map
       /\ linuxKeyCodeFor([fd |-> 3, currentMods |-> {}, keyDelayUs |-> 1000,
                           keyMap |-> km.map], k) > 0

\* Built with keymap creation failing: the whole map is the fallback table.
C13_Witness ==
  /\ km.pc = "done"
  /\ km.xkb.ctx /\ ~km.xkb.keymap
  /\ km.map = FallbackTable

(***************************************************************************)
(* C14                                                                     *)
(***************************************************************************)
\* C14: a build run on a map with any previous contents ends with exactly
\* the map a first build (the constructor's) gives for the same layout.
C14_RebuildIsIdempotent ==
  km.pc = "done" => km.map = ImplCtor(3, km.xkb).keyMap

\* A second build whose starting contents differed from its result.
C14_Witness ==
  /\ km.pc = "done"
  /\ km.builds = 2
  /\ DOMAIN km.old # {}
  /\ km.old # km.map
  /\ km.map = ImplCtor(3, km.xkb).keyMap

(***************************************************************************)
(* C15                                                                     *)
(***************************************************************************)
\* C15: no call on a Sender that keeps its Impl adds, removes or changes an
\* entry of the key map, so every Key resolves after the call as before it.
C15_KeyMapImmutable ==
  [][(m_impl # <<>> /\ m_impl' # <<>>) =>
       /\ m_impl'[1].keyMap = m_impl[1].keyMap
       /\ \A k \in Keys :
            linuxKeyCodeFor(m_impl'[1], k) = linuxKeyCodeFor(m_impl[1], k)]_vars

\* A second call, a tap of the unmapped Key on a ready Sender, has returned
\* false and the map still has no entry for the Key.
C15_Witness ==
  /\ calls = 2
  /\ lastOp.name = "tap" /\ lastOp.key = "Unknown"
  /\ isReady(Machine)
  /\ ~ret
  /\ "Unknown" \notin DOMAIN m_impl[1].keyMap
  /\ m_impl[1].keyMap = prevImpl[1].keyMap

(***************************************************************************)
(* C16                                                                     *)
(***************************************************************************)
\* What a call may do to canInjectKeys: nothing, and isReady() and
\* requestPermissions() return it.
CanInjectKeysKept ==
  /\ capabilities(Machine)'.canInjectKeys = capabilities(Machine).canInjectKeys
  /\ (lastOp'.name \in {"isReady", "requestPermissions"} /\ calls' > calls) =>
        ret' = capabilities(Machine)'.canInjectKeys

\* C16 as stated: canInjectKeys is what construction made it and no sequence
\* of operations on the Sender changes it.
C16_NeverChanges == [][CanInjectKeysKept]_vars

\* C16, amended: canInjectKeys is fd >= 0 with the fd construction left in the
\* Impl, and no call changes it while the Sender owns its Impl; it is false
\* once the Sender has been moved from; isReady() and requestPermissions()
\* return canInjectKeys in every case.
C16_KeptWhileOwned ==
  [][/\ (m_impl # <<>> /\ m_impl' # <<>>) =>
          /\ m_impl'[1].fd = m_impl[1].fd
          /\ capabilities(Machine)'.canInjectKeys = (m_impl[1].fd >= 0)
          /\ capabilities(Machine)'.canInjectKeys
               = capabilities(Machine).canInjectKeys
     /\ (m_impl' = <<>>) => ~capabilities(Machine)'.canInjectKeys
     /\ (lastOp'.name \in {"isReady", "requestPermissions"} /\ calls' > calls)
          => ret' = capabilities(Machine)'.canInjectKeys]_vars

\* requestPermissions() made after another call on a Sender whose open of
\* /dev/uinput failed: it returns false, as canInjectKeys is.
C16_Witness ==
  /\ calls = 2
  /\ lastOp.name = "requestPermissions"
  /\ m_impl # <<>> /\ m_impl[1].fd < 0
  /\ ~capabilities(Machine).canInjectKeys
  /\ ~ret

(***************************************************************************)
(* Layout resolution: detectXkbRuleNames() (linux_layout.cpp)              *)
(*                                                                         *)
(* A std::string is the sequence of its characters, each a one-character   *)
(* string; the empty string is <<>>.  A `const char *` from getenv is <<>> *)
(* for nullptr and <<s>> for the string s.                                 *)
(***************************************************************************)
LowerCase == <<"a", "b", "c", "d", "e", "f", "g", "h", "i", "j", "k", "l", "m",
              "n", "o", "p", "q", "r", "s", "t", "u", "v", "w", "x", "y", "z">>

UpperCase == <<"A", "B", "C", "D", "E", "F", "G", "H", "I", "J", "K", "L", "M",
              "N", "O", "P", "Q", "R", "S", "T", "U", "V", "W", "X", "Y", "Z">>

\* s.find(ch): the first position of ch in s, 0 for npos.
find(s, ch) ==
  IF \E i \in 1..Len(s) : s[i] = ch
    THEN CHOOSE i \in 1..Len(s) : s[i] = ch /\ \A j \in 1..(i - 1) : s[j] # ch
    ELSE 0

\* std::toupper / std::tolower in the "C" locale.
toupper(c) ==
  IF find(LowerCase, c) = 0 THEN c ELSE UpperCase[find(LowerCase, c)]

tolower(c) ==
  IF find(UpperCase, c) = 0 THEN c ELSE LowerCase[find(UpperCase, c)]

\* The characters trimInPlace removes at both ends: " \t\r\n".
Whitespace == {" ", "\t", "\r", "\n"}

\* trimInPlace(s)
trimInPlace(s) ==
  LET keep == {i \in 1..Len(s) : s[i] \notin Whitespace}
  IN IF keep = {} THEN <<>>
     ELSE LET a == CHOOSE i \in keep : \A j \in keep : i <= j
              b == CHOOSE i \in keep : \A j \in keep : j <= i
          IN SubSeq(s, a, b)

\* stripSurroundingQuotes(s)
stripSurroundingQuotes(s) ==
  IF Len(s) >= 2 /\ (\/ (s[1] = "\"" /\ s[Len(s)] = "\"")
                     \/ (s[1] = "'" /\ s[Len(s)] = "'"))
    THEN SubSeq(s, 2, Len(s) - 1)
    ELSE s

\* normalizeKey(key): trimmed, upper-cased.
normalizeKey(key) ==
  LET t == trimInPlace(key) IN [i \in 1..Len(t) |-> toupper(t[i])]

\* setIfEmpty(dst, value), dst being the field f of out.
setIfEmpty(out, f, value) ==
  IF out[f] = <<>> THEN [out EXCEPT ![f] = value] ELSE out

Fields == {"rules", "model", "layout", "variant", "options"}

\* The environment variable read into each field.
EnvOf(f) ==
  CASE f = "rules"   -> "XKB_DEFAULT_RULES"
    [] f = "model"   -> "XKB_DEFAULT_MODEL"
    [] f = "layout"  -> "XKB_DEFAULT_LAYOUT"
    [] f = "variant" -> "XKB_DEFAULT_VARIANT"
    [] f = "options" -> "XKB_DEFAULT_OPTIONS"

\* The two keys of /etc/default/keyboard that name each field: XKB<NAME>
\* and XKB_DEFAULT_<NAME>.
NameOf(f) ==
  CASE f = "rules"   -> <<"R", "U", "L", "E", "S">>
    [] f = "model"   -> <<"M", "O", "D", "E", "L">>
    [] f = "layout"  -> <<"L", "A", "Y", "O", "U", "T">>
    [] f = "variant" -> <<"V", "A", "R", "I", "A", "N", "T">>
    [] f = "options" -> <<"O", "P", "T", "I", "O", "N", "S">>

KeysOf(f) ==
  {<<"X", "K", "B">> \o NameOf(f),
   <<"X", "K", "B", "_", "D", "E", "F", "A", "U", "L", "T", "_">> \o NameOf(f)}

\* XkbRuleNamesStrings out;
EmptyNames == [f \in Fields |-> <<>>]

\* Step 1: the five getenv reads, then the five trimInPlace calls.
readEnv(env) ==
  [f \in Fields |->
     trimInPlace(IF env[EnvOf(f)] # <<>> THEN env[EnvOf(f)][1] ELSE <<>>)]

\* Whether step 2 opens the file at all.
needsFile(out) == \E f \in Fields : out[f] = <<>>

\* The key of a line as the loop body computes it: <<>> stands for a line
\* that is skipped before a key is looked at (empty, no '=', empty value).
lineKey(raw) ==
  LET c    == find(raw, "#")
      line == trimInPlace(IF c # 0 THEN SubSeq(raw, 1, c - 1) ELSE raw)
      eq   == find(line, "=")
  IN IF line = <<>> \/ eq = 0 THEN <<>>
     ELSE normalizeKey(SubSeq(line, 1, eq - 1))

\* The value of a line as the loop body computes it.
lineVal(raw) ==
  LET c    == find(raw, "#")
      line == trimInPlace(IF c # 0 THEN SubSeq(raw, 1, c - 1) ELSE raw)
      eq   == find(line, "=")
  IN IF line = <<>> \/ eq = 0 THEN <<>>
     ELSE trimInPlace(stripSurroundingQuotes(
            trimInPlace(SubSeq(line, eq + 1, Len(line)))))

\* A loop body that assigns the field whether or not it is empty.
readLineOverwrite(out, raw) ==
  LET key == lineKey(raw)
      val == lineVal(raw)
  IN IF val = <<>> THEN out
     ELSE IF \E f \in Fields : key \in KeysOf(f)
            THEN LET f == CHOOSE g \in Fields : key \in KeysOf(g)
                 IN [out EXCEPT ![f] = val]
            ELSE out

\* The body of `while (std::getline(f, line))` for one line.
readLine(out, raw) ==
  LET c    == find(raw, "#")
      line == trimInPlace(IF c # 0 THEN SubSeq(raw, 1, c - 1) ELSE raw)
      eq   == find(line, "=")
  IN IF line = <<>> THEN out
     ELSE IF eq = 0 THEN out
     ELSE LET key == normalizeKey(SubSeq(line, 1, eq - 1))
              val == trimInPlace(stripSurroundingQuotes(
                       trimInPlace(SubSeq(line, eq + 1, Len(line)))))
          IN IF val = <<>> THEN out
             ELSE IF key \in KeysOf("rules") THEN setIfEmpty(out, "rules", val)
             ELSE IF key \in KeysOf("model") THEN setIfEmpty(out, "model", val)
             ELSE IF key \in KeysOf("layout")
                    THEN setIfEmpty(out, "layout", val)
             ELSE IF key \in KeysOf("variant")
                    THEN setIfEmpty(out, "variant", val)
             ELSE IF key \in KeysOf("options")
                    THEN setIfEmpty(out, "options", val)
             ELSE out

\* localeEnv: getenv("LC_ALL"), then LC_MESSAGES and LANG `if (!localeEnv)`.
localeEnvOf(env) ==
  IF env["LC_ALL"] # <<>> THEN env["LC_ALL"]
  ELSE IF env["LC_MESSAGES"] # <<>> THEN env["LC_MESSAGES"]
  ELSE env["LANG"]

\* A truncation at '.' only.
truncateLocaleDotOnly(locale) ==
  IF find(locale, ".") # 0 THEN SubSeq(locale, 1, find(locale, ".") - 1)
  ELSE locale

\* locale.resize(dot), then locale.resize(at).
truncateLocale(locale) ==
  LET l1 == IF find(locale, ".") # 0
              THEN SubSeq(locale, 1, find(locale, ".") - 1) ELSE locale
  IN IF find(l1, "@") # 0 THEN SubSeq(l1, 1, find(l1, "@") - 1) ELSE l1

\* The layout the heuristic derives from a locale string; <<>> when it
\* assigns nothing.
layoutOfLocale(str) ==
  LET locale == truncateLocale(str)
      us     == find(locale, "_")
      lang0  == IF us # 0 THEN SubSeq(locale, 1, us - 1) ELSE locale
      reg0   == IF us # 0 THEN SubSeq(locale, us + 1, Len(locale)) ELSE <<>>
      lang   == [i \in 1..Len(lang0) |-> tolower(lang0[i])]
      region == [i \in 1..Len(reg0) |-> toupper(reg0[i])]
  IN IF lang = <<"e", "n">>
       THEN IF region = <<"G", "B">> \/ region = <<"U", "K">>
              THEN <<"g", "b">> ELSE <<"u", "s">>
     ELSE IF lang = <<"p", "t">> /\ region = <<"B", "R">> THEN <<"b", "r">>
     ELSE IF lang = <<"d", "a">> THEN <<"d", "k">>
     ELSE IF lang = <<"s", "v">> THEN <<"s", "e">>
     ELSE IF lang # <<>> THEN lang
     ELSE <<>>

\* A locale heuristic that runs whether or not the layout is empty.
localeFallbackAlways(out, env) ==
  LET localeEnv == localeEnvOf(env)
  IN IF localeEnv = <<>> THEN out
     ELSE LET l == layoutOfLocale(localeEnv[1])
          IN IF l # <<>> THEN [out EXCEPT !.layout = l] ELSE out

\* Step 3: the locale heuristic, entered only with an empty layout.
localeFallback(out, env) ==
  IF out.layout # <<>> THEN out
  ELSE LET localeEnv == localeEnvOf(env)
       IN IF localeEnv = <<>> THEN out
          ELSE LET l == layoutOfLocale(localeEnv[1])
               IN IF l # <<>> THEN [out EXCEPT !.layout = l] ELSE out

(***************************************************************************)
(* Layout resolution: one detectXkbRuleNames() call, step by step          *)
(***************************************************************************)
MaxLines == 2

\* Strings the sessions below use more than once.
\* da_DK.UTF-8
DaDK ==
  <<"d", "a", "_", "D", "K", ".", "U", "T", "F", "-", "8">>

\* en_GB.UTF-8
EnGB ==
  <<"e", "n", "_", "G", "B", ".", "U", "T", "F", "-", "8">>

\* sv_SE
SvSE ==
  <<"s", "v", "_", "S", "E">>

\* XKBVARIANT=nodeadkeys
LineVariant ==
  <<"X", "K", "B", "V", "A", "R", "I", "A", "N", "T", "=", "n", "o", "d",
  "e", "a", "d", "k", "e", "y", "s">>

\* XKBLAYOUT=de
LineLayoutDe ==
  <<"X", "K", "B", "L", "A", "Y", "O", "U", "T", "=", "d", "e">>

\* compose:menu
ComposeMenu ==
  <<"c", "o", "m", "p", "o", "s", "e", ":", "m", "e", "n", "u">>

\* fr
Fr ==
  <<"f", "r">>

\* An environment: the five XKB_DEFAULT_* variables from xkb, the three
\* locale variables as given; <<>> is an unset variable.
Env(xkb, lcAll, lcMessages, lang) ==
  [n \in {"XKB_DEFAULT_RULES", "XKB_DEFAULT_MODEL", "XKB_DEFAULT_LAYOUT",
          "XKB_DEFAULT_VARIANT", "XKB_DEFAULT_OPTIONS",
          "LC_ALL", "LC_MESSAGES", "LANG"} |->
     CASE n = "LC_ALL"      -> lcAll
       [] n = "LC_MESSAGES" -> lcMessages
       [] n = "LANG"        -> lang
       [] OTHER             -> xkb[n]]

\* No XKB_DEFAULT_* variable is set.
XkbEnvUnset ==
  [n \in {"XKB_DEFAULT_RULES", "XKB_DEFAULT_MODEL", "XKB_DEFAULT_LAYOUT",
          "XKB_DEFAULT_VARIANT", "XKB_DEFAULT_OPTIONS"} |-> <<>>]

\* The XKB_DEFAULT_* settings of the modelled sessions: nothing set; the
\* layout set to fr, to fr between blanks, to a blank, to the empty string;
\* only the variant set; all five set.
XkbEnvs ==
  {XkbEnvUnset,
   [XkbEnvUnset EXCEPT !["XKB_DEFAULT_LAYOUT"] = <<Fr>>],
   [XkbEnvUnset EXCEPT !["XKB_DEFAULT_LAYOUT"] = <<<<" ", "f", "r", " ">>>>],
   [XkbEnvUnset EXCEPT !["XKB_DEFAULT_LAYOUT"] = <<<<" ">>>>],
   [XkbEnvUnset EXCEPT !["XKB_DEFAULT_LAYOUT"] = << <<>> >>],
   [XkbEnvUnset EXCEPT !["XKB_DEFAULT_VARIANT"] = <<<<"o", "s", "s">>>>],
   [XkbEnvUnset EXCEPT !["XKB_DEFAULT_RULES"] = <<<<"e", "v", "d", "e", "v">>>>,
                       !["XKB_DEFAULT_MODEL"] = <<<<"p", "c", "1", "0", "5">>>>,
                       !["XKB_DEFAULT_LAYOUT"] = <<Fr>>,
                       !["XKB_DEFAULT_VARIANT"] = <<<<"o", "s", "s">>>>,
                       !["XKB_DEFAULT_OPTIONS"] = <<ComposeMenu>>]}

\* Lines of /etc/default/keyboard.
Lines ==
   {\* XKBLAYOUT=de
    <<"X", "K", "B", "L", "A", "Y", "O", "U", "T", "=", "d", "e">>,
    \* XKBLAYOUT="us"
    <<"X", "K", "B", "L", "A", "Y", "O", "U", "T", "=", "\"", "u", "s",
    "\"">>,
    \* xkb_default_layout = 'es' # c
    <<"x", "k", "b", "_", "d", "e", "f", "a", "u", "l", "t", "_", "l", "a",
    "y", "o", "u", "t", " ", "=", " ", "'", "e", "s", "'", " ", "#", " ",
    "c">>,
    \* XKBLAYOUT=""
    <<"X", "K", "B", "L", "A", "Y", "O", "U", "T", "=", "\"", "\"">>,
    \* XKBVARIANT=nodeadkeys
    <<"X", "K", "B", "V", "A", "R", "I", "A", "N", "T", "=", "n", "o", "d",
    "e", "a", "d", "k", "e", "y", "s">>,
    \* # XKBLAYOUT=it
    <<"#", " ", "X", "K", "B", "L", "A", "Y", "O", "U", "T", "=", "i", "t">>,
    \* XKBLAYOUT
    <<"X", "K", "B", "L", "A", "Y", "O", "U", "T">>,
    \* FOO=bar
    <<"F", "O", "O", "=", "b", "a", "r">>,
    \* XKBMODEL=pc105
    <<"X", "K", "B", "M", "O", "D", "E", "L", "=", "p", "c", "1", "0", "5">>}

RECURSIVE FilesOfLength(_)
FilesOfLength(n) ==
  IF n = 0 THEN {<<>>}
  ELSE {Append(f, l) : f \in FilesOfLength(n - 1), l \in Lines}

\* /etc/default/keyboard: missing (<<>>), or present with up to MaxLines
\* lines (<<lines>>).
Files ==
  {<<>>} \cup {<<f>> : f \in UNION {FilesOfLength(n) : n \in 0..MaxLines}}

\* Values of LC_ALL, LC_MESSAGES or LANG.
Locales ==
   {\* en_GB.UTF-8
    <<"e", "n", "_", "G", "B", ".", "U", "T", "F", "-", "8">>,
    \* en_UK
    <<"e", "n", "_", "U", "K">>,
    \* EN_gb
    <<"E", "N", "_", "g", "b">>,
    \* en_US.UTF-8
    <<"e", "n", "_", "U", "S", ".", "U", "T", "F", "-", "8">>,
    \* en
    <<"e", "n">>,
    \* pt_BR.UTF-8
    <<"p", "t", "_", "B", "R", ".", "U", "T", "F", "-", "8">>,
    \* pt_PT
    <<"p", "t", "_", "P", "T">>,
    \* da_DK.UTF-8
    <<"d", "a", "_", "D", "K", ".", "U", "T", "F", "-", "8">>,
    \* sv_SE@euro
    <<"s", "v", "_", "S", "E", "@", "e", "u", "r", "o">>,
    \* de@euro
    <<"d", "e", "@", "e", "u", "r", "o">>,
    \* fr.UTF-8@x
    <<"f", "r", ".", "U", "T", "F", "-", "8", "@", "x">>,
    \* xx_YY
    <<"x", "x", "_", "Y", "Y">>,
    \* C
    <<"C">>,
    \* _GB
    <<"_", "G", "B">>,
    \* .UTF-8
    <<".", "U", "T", "F", "-", "8">>}

\* A call is about to start in a session with this environment and file.
LrStart(env, file) ==
  [pc |-> "start", env |-> env, file |-> file, out |-> EmptyNames,
   line |-> 1, pre |-> EmptyNames]

\* Sessions that differ in the XKB variables and in the file.
InitLayout ==
  /\ NoSender
  /\ km = KmIdle
  /\ ls = <<>>
  /\ \E xkb \in XkbEnvs, file \in Files,
        lang \in {<<>>, <<DaDK>>} :
       lr = LrStart(Env(xkb, <<>>, <<>>, lang), file)

\* Sessions that differ in the locale variables.
InitLocale ==
  /\ NoSender
  /\ km = KmIdle
  /\ ls = <<>>
  /\ \E xkb \in {XkbEnvUnset,
                 [XkbEnvUnset EXCEPT !["XKB_DEFAULT_LAYOUT"] = <<Fr>>]},
        file \in {<<>>, << <<LineVariant>> >>,
                  << <<LineLayoutDe>> >>},
        lcAll \in {<<>>, << <<>> >>, <<EnGB>>},
        lcMessages \in {<<>>, << <<>> >>, <<SvSE>>},
        lang \in {<<>>, << <<>> >>} \cup {<<l>> : l \in Locales} :
       lr = LrStart(Env(xkb, lcAll, lcMessages, lang), file)

\* Step 1, and the test that guards step 2 with the attempt to open the file.
LrReadEnv ==
  /\ lr.pc = "start"
  /\ LET out == readEnv(lr.env)
     IN lr' = [lr EXCEPT !.out = out,
                         !.pc = IF needsFile(out) /\ lr.file # <<>>
                                  THEN "file" ELSE "locale"]
  /\ UNCHANGED <<senderVars, km, ls>>

\* One std::getline and the loop body.
LrReadLine ==
  /\ lr.pc = "file"
  /\ lr.line <= Len(lr.file[1])
  /\ lr' = [lr EXCEPT !.out = readLine(lr.out, lr.file[1][lr.line]),
                      !.line = lr.line + 1]
  /\ UNCHANGED <<senderVars, km, ls>>

\* std::getline fails at the end of the file.
LrEndOfFile ==
  /\ lr.pc = "file"
  /\ lr.line > Len(lr.file[1])
  /\ lr' = [lr EXCEPT !.pc = "locale"]
  /\ UNCHANGED <<senderVars, km, ls>>

\* Step 3 and `return out`.
LrLocale ==
  /\ lr.pc = "locale"
  /\ lr' = [lr EXCEPT !.out = localeFallback(lr.out, lr.env),
                      !.pre = lr.out,
                      !.pc = "done"]
  /\ UNCHANGED <<senderVars, km, ls>>

NextLayout ==
  \/ LrReadEnv
  \/ LrReadLine
  \/ LrEndOfFile
  \/ LrLocale

SpecLayout == InitLayout /\ [][NextLayout]_vars

SpecLocale == InitLocale /\ [][NextLayout]_vars

(***************************************************************************)
(* Observations on a detectXkbRuleNames() call                             *)
(***************************************************************************)
\* The value of the environment variable behind field f, "" when unset.
EnvValue(f) ==
  IF lr.env[EnvOf(f)] = <<>> THEN <<>> ELSE lr.env[EnvOf(f)][1]

\* The first element of a non-empty set of positions.
First(S) == CHOOSE i \in S : \A j \in S : i <= j

\* The lines of the file whose key names field f.
LinesNaming(f) ==
  {i \in 1..Len(lr.file[1]) : lineKey(lr.file[1][i]) \in KeysOf(f)}

\* No step changes a field that already has a value.
StepFillsOnlyEmpty ==
  \A f \in Fields : lr.out[f] # <<>> => lr'.out[f] = lr.out[f]

\* The locale step leaves rules, model, variant and options alone.
LocaleTouchesOnlyLayout ==
  lr.pc = "locale" =>
    \A f \in Fields \ {"layout"} : lr'.out[f] = lr.out[f]

(***************************************************************************)
(* C17                                                                     *)
(***************************************************************************)
\* The first of LC_ALL, LC_MESSAGES, LANG that is set and not empty; "" when
\* there is none.
FirstNonEmptyLocale(env) ==
  IF env["LC_ALL"] # <<>> /\ env["LC_ALL"][1] # <<>> THEN env["LC_ALL"][1]
  ELSE IF env["LC_MESSAGES"] # <<>> /\ env["LC_MESSAGES"][1] # <<>>
         THEN env["LC_MESSAGES"][1]
  ELSE IF env["LANG"] # <<>> THEN env["LANG"][1]
  ELSE <<>>

\* C17: when the locale fallback runs, the layout is the one derived from
\* the first of LC_ALL, LC_MESSAGES, LANG that is non-empty; a variable that
\* is set but empty is skipped.
C17_FirstNonEmptyLocale ==
  (lr.pc = "done" /\ lr.pre.layout = <<>>) =>
     lr.out.layout = layoutOfLocale(FirstNonEmptyLocale(lr.env))

(***************************************************************************)
(* C18                                                                     *)
(***************************************************************************)
\* C18 as stated: steps only fill empty fields, the locale step touches only
\* layout, and a non-empty environment value is the result for its field.
C18_EnvValueIsResult ==
  [][/\ StepFillsOnlyEmpty
     /\ LocaleTouchesOnlyLayout
     /\ (lr'.pc = "done") =>
          \A f \in Fields :
             EnvValue(f) # <<>> => lr'.out[f] = EnvValue(f)]_vars

\* C18, amended: steps only fill empty fields (so the file supplies only
\* what the environment left empty, the locale step only a layout nobody
\* supplied), the locale step touches only layout, and an environment value
\* that is non-empty once its surrounding whitespace is trimmed is, trimmed,
\* the result for its field whatever the file says.
C18_TrimmedEnvValueIsResult ==
  [][/\ StepFillsOnlyEmpty
     /\ LocaleTouchesOnlyLayout
     /\ (lr.pc = "start") =>
          \A f \in Fields : lr'.out[f] = trimInPlace(EnvValue(f))
     /\ (lr'.pc = "done") =>
          \A f \in Fields :
             trimInPlace(EnvValue(f)) # <<>>
               => lr'.out[f] = trimInPlace(EnvValue(f))]_vars

\* XKB_DEFAULT_LAYOUT=" fr " with a file whose first line is XKBLAYOUT=de and
\* LANG=da_DK.UTF-8: the call has returned layout fr.
C18_Witness ==
  /\ lr.pc = "done"
  /\ lr.env["XKB_DEFAULT_LAYOUT"] = <<<<" ", "f", "r", " ">>>>
  /\ lr.env["LANG"] = <<DaDK>>
  /\ lr.file # <<>>
  /\ Len(lr.file[1]) = 2
  /\ lr.file[1][1] = LineLayoutDe
  /\ lr.line = 3
  /\ lr.out.layout = Fr

(***************************************************************************)
(* C19                                                                     *)
(***************************************************************************)
\* The layout C19 gives for a locale string.
ExpectedLayout(str) ==
  LET cut  == {i \in 1..Len(str) : str[i] \in {".", "@"}}
      base == IF cut = {} THEN str ELSE SubSeq(str, 1, First(cut) - 1)
      us   == {i \in 1..Len(base) : base[i] = "_"}
      l0   == IF us = {} THEN base ELSE SubSeq(base, 1, First(us) - 1)
      r0   == IF us = {} THEN <<>> ELSE SubSeq(base, First(us) + 1, Len(base))
      language == [i \in 1..Len(l0) |-> tolower(l0[i])]
      region   == [i \in 1..Len(r0) |-> toupper(r0[i])]
  IN CASE language = <<"e", "n">> /\ region \in {<<"G", "B">>, <<"U", "K">>}
            -> <<"g", "b">>
       [] language = <<"e", "n">> /\ region \notin {<<"G", "B">>, <<"U", "K">>}
            -> <<"u", "s">>
       [] language = <<"p", "t">> /\ region = <<"B", "R">> -> <<"b", "r">>
       [] language = <<"d", "a">> -> <<"d", "k">>
       [] language = <<"s", "v">> -> <<"s", "e">>
       [] OTHER -> language

\* C19: with no layout from the environment or the file, the layout is the
\* one the locale table gives for the locale string (en_GB.UTF-8 gives gb,
\* da_DK.UTF-8 gives dk, xx_YY gives xx), and stays empty for an empty
\* language.
C19_LocaleHeuristic ==
  (lr.pc = "done" /\ lr.pre.layout = <<>> /\ localeEnvOf(lr.env) # <<>>) =>
     LET str == localeEnvOf(lr.env)[1]
     IN /\ lr.out.layout = ExpectedLayout(str)
        /\ str = EnGB => lr.out.layout = <<"g", "b">>
        /\ str = DaDK => lr.out.layout = <<"d", "k">>
        /\ str = <<"x", "x", "_", "Y", "Y">>
             => lr.out.layout = <<"x", "x">>
        /\ str \in {<<>>, <<"_", "G", "B">>, <<".", "U", "T", "F", "-", "8">>}
             => lr.out.layout = <<>>

\* LANG=en_GB.UTF-8 alone, nothing from the XKB variables or the file: the
\* call has returned layout gb.
C19_Witness ==
  /\ lr.pc = "done"
  /\ lr.pre.layout = <<>>
  /\ lr.env["LC_ALL"] = <<>> /\ lr.env["LC_MESSAGES"] = <<>>
  /\ lr.env["LANG"] = <<EnGB>>
  /\ lr.out.layout = <<"g", "b">>

(***************************************************************************)
(* C20                                                                     *)
(***************************************************************************)
\* A line without '=' or with an unrecognized key changes nothing.
OtherLinesChangeNothing ==
  (lr.pc = "file" /\ lr'.pc = "file") =>
     ((\A f \in Fields : lineKey(lr.file[1][lr.line]) \notin KeysOf(f))
        => lr'.out = lr.out)

\* C20 as stated: when the file has been read, a field the environment left
\* empty has the value of the first line that names it.
C20_FirstOccurrenceWins ==
  [][/\ OtherLinesChangeNothing
     /\ (lr.pc = "file" /\ lr'.pc = "locale") =>
          \A f \in Fields :
             (readEnv(lr.env)[f] = <<>> /\ LinesNaming(f) # {}) =>
                lr'.out[f] = lineVal(lr.file[1][First(LinesNaming(f))])]_vars

\* C20, amended: when the file has been read, a field the environment left
\* empty has the value of the first line that names it with a value that is
\* not empty after comment stripping, trimming and quote stripping, later
\* lines for the field being ignored; it is empty when there is no such line.
C20_FirstValueWins ==
  [][/\ OtherLinesChangeNothing
     /\ (lr.pc = "file" /\ lr'.pc = "locale") =>
          \A f \in Fields :
             readEnv(lr.env)[f] = <<>> =>
                LET valued == {i \in LinesNaming(f) :
                                 lineVal(lr.file[1][i]) # <<>>}
                IN lr'.out[f] = IF valued = {} THEN <<>>
                                ELSE lineVal(lr.file[1][First(valued)])]_vars

\* The file `XKBLAYOUT="us"`, `XKBLAYOUT=de` has been read with no layout in
\* the environment: the layout is us.
C20_Witness ==
  /\ lr.pc = "locale"
  /\ readEnv(lr.env).layout = <<>>
  /\ lr.file = << <<<<"X", "K", "B", "L", "A", "Y", "O", "U", "T", "=", "\"", "u", "s", "\"">>,
                    LineLayoutDe>> >>
  /\ lr.line = 3
  /\ lr.out.layout = <<"u", "s">>

(***************************************************************************)
(* Listener (include/typr-io/listener.hpp)                                 *)
(*                                                                         *)
(* Only the class declaration is in the sources; the behaviour of start,   *)
(* stop and isListening follows sections 4.5 and 5 of the specification:   *)
(* NotStarted -> Listening -> Stopped, a dedicated background flow that    *)
(* delivers events to the callback, cooperative cancellation checked       *)
(* between deliveries, and a stop() that joins the flow.                   *)
(***************************************************************************)
MaxEvents == 2

MaxListenerCalls == 3

\* The threads that call start() and stop() from outside the callback.
Callers == {"t1", "t2"}

\* `Listener l;`
NewListener ==
  [state |-> "NotStarted", stopFlag |-> FALSE, flow |-> "none",
   delivered |-> 0, teardowns |-> 0]

\* isListening(): reflects only the Listening state.
isListening(l) == l.state = "Listening"

\* A start() whose failure leaves a background flow behind.
startLeaksFlow(l, acquired) ==
  IF acquired THEN [l EXCEPT !.state = "Listening", !.flow = "waiting"]
  ELSE [l EXCEPT !.flow = "waiting"]

\* start(cb) on a NotStarted Listener: with the event source acquired the
\* Listener is Listening and the flow waits for events; without it nothing
\* is allocated.  The call returns isListening() of the result.
start(l, acquired) ==
  IF acquired THEN [l EXCEPT !.state = "Listening", !.flow = "waiting"]
  ELSE l

\* A stop() that marks the Listener Stopped whatever its state.
stopRequestFromAnyState(l) ==
  [l EXCEPT !.state = "Stopped", !.stopFlag = TRUE]

\* stop(), first part: on a Listening Listener the stop is requested; on any
\* other it is a no-op.
stopRequest(l) ==
  IF l.state = "Listening"
    THEN [l EXCEPT !.state = "Stopped", !.stopFlag = TRUE]
    ELSE l

\* A stop() that returns without waiting for the flow.
stopMayReturnDetached(l) == TRUE

\* stop(), second part: the caller is held until the flow has unwound and
\* been torn down, or there never was one.
stopMayReturn(l) == l.flow \in {"none", "joined"}

\* A Listener, its callers (what each is doing, and its last finished
\* call), and the number of calls made.
InitListener ==
  /\ NoSender
  /\ km = KmIdle
  /\ lr = <<>>
  /\ ls = [l     |-> NewListener,
           pc    |-> [t \in Callers |-> "idle"],
           last  |-> [t \in Callers |->
                        [name |-> "-", ret |-> FALSE, on |-> "-",
                         blocked |-> FALSE]],
           calls |-> 0]

\* A caller calls start(cb); the platform grants the event source or not.
LsStart ==
  \E t \in Callers, acquired \in BOOLEAN :
    /\ ls.pc[t] = "idle"
    /\ ls.calls < MaxListenerCalls
    /\ ls.l.state = "NotStarted"
    /\ ls' = [ls EXCEPT
                !.l = start(ls.l, acquired),
                !.last[t] = [name |-> "start",
                             ret |-> isListening(start(ls.l, acquired)),
                             on |-> ls.l.state, blocked |-> FALSE],
                !.calls = ls.calls + 1]
    /\ UNCHANGED <<senderVars, km, lr>>

\* A caller enters stop(): the request, then the wait.  The caller that
\* found the Listener Listening is the one that tears the flow down.
LsStopBegin ==
  \E t \in Callers :
    /\ ls.pc[t] = "idle"
    /\ ls.calls < MaxListenerCalls
    /\ ls' = [ls EXCEPT
                !.l = stopRequest(ls.l),
                !.pc[t] = IF ls.l.state = "Listening" THEN "joining"
                          ELSE "waiting",
                !.last[t] = [name |-> "stop", ret |-> FALSE,
                             on |-> ls.l.state,
                             blocked |-> ~stopMayReturn(stopRequest(ls.l))],
                !.calls = ls.calls + 1]
    /\ UNCHANGED <<senderVars, km, lr>>

\* The tearing-down caller joins the flow that has exited, releases the
\* event source, and returns from stop().
LsStopJoin ==
  \E t \in Callers :
    /\ ls.pc[t] = "joining"
    /\ ls.l.flow = "exited"
    /\ ls' = [ls EXCEPT !.l.flow = "joined",
                        !.l.teardowns = ls.l.teardowns + 1,
                        !.pc[t] = "idle"]
    /\ UNCHANGED <<senderVars, km, lr>>

\* Any other caller returns from stop() once nothing is left to wait for.
LsStopReturn ==
  \E t \in Callers :
    /\ ls.pc[t] = "waiting"
    /\ stopMayReturn(ls.l)
    /\ ls' = [ls EXCEPT !.pc[t] = "idle"]
    /\ UNCHANGED <<senderVars, km, lr>>

\* The flow, blocked on the event source, receives an event and invokes the
\* callback.
LsDeliver ==
  /\ ls.l.flow = "waiting"
  /\ ls.l.delivered < MaxEvents
  /\ ls' = [ls EXCEPT !.l.flow = "callback",
                      !.l.delivered = ls.l.delivered + 1]
  /\ UNCHANGED <<senderVars, km, lr>>

\* The callback returns.
LsCallbackReturn ==
  /\ ls.l.flow = "callback"
  /\ ls' = [ls EXCEPT !.l.flow = "check"]
  /\ UNCHANGED <<senderVars, km, lr>>

\* The callback itself calls stop(): the flow waits for itself to unwind.
LsStopInCallback ==
  /\ ls.l.flow = "callback"
  /\ ls' = [ls EXCEPT !.l = [stopRequest(ls.l) EXCEPT !.flow = "selfjoin"]]
  /\ UNCHANGED <<senderVars, km, lr>>

\* Between deliveries the flow looks at the stop request.
LsFlowCheck ==
  /\ ls.l.flow = "check"
  /\ ls' = [ls EXCEPT !.l.flow = IF ls.l.stopFlag THEN "exited"
                                 ELSE "waiting"]
  /\ UNCHANGED <<senderVars, km, lr>>

\* A stop request wakes the flow blocked on the event source; it unwinds.
LsFlowWake ==
  /\ ls.l.flow = "waiting"
  /\ ls.l.stopFlag
  /\ ls' = [ls EXCEPT !.l.flow = "exited"]
  /\ UNCHANGED <<senderVars, km, lr>>

NextListener ==
  \/ LsStart
  \/ LsStopBegin
  \/ LsStopJoin
  \/ LsStopReturn
  \/ LsDeliver
  \/ LsCallbackReturn
  \/ LsStopInCallback
  \/ LsFlowCheck
  \/ LsFlowWake

SpecListener == InitListener /\ [][NextListener]_vars

\* The callback is being executed.
CallbackRunning == ls.l.flow \in {"callback", "selfjoin"}

\* Caller t is outside any call and its last call was a stop().
StopReturned(t) == ls.pc[t] = "idle" /\ ls.last[t].name = "stop"

(***************************************************************************)
(* C21                                                                     *)
(***************************************************************************)
\* C21: once a stop() called on a started Listener has returned, the
\* callback is not running and no invocation can begin: the flow has
\* unwound.
C21_NoCallbackAfterStop ==
  \A t \in Callers :
    (StopReturned(t) /\ ls.last[t].on # "NotStarted") =>
       /\ ~CallbackRunning
       /\ ls.l.flow = "joined"
       /\ ~ENABLED LsDeliver

\* A stop() that found the callback running has returned after waiting, and
\* an event had been delivered.
C21_Witness ==
  \E t \in Callers :
    /\ StopReturned(t)
    /\ ls.last[t].on = "Listening"
    /\ ls.last[t].blocked
    /\ ls.l.delivered = 2
    /\ ls.l.flow = "joined"

(***************************************************************************)
(* C22                                                                     *)
(***************************************************************************)
\* C22: a start() that returned false left the Listener NotStarted, with
\* isListening() false, no flow and no callback invocation, and a stop()
\* after it changes nothing and returns at once.
C22_FailedStartLeavesNotStarted ==
  [][/\ \A t \in Callers :
          (ls'.last[t] # ls.last[t] /\ ls'.last[t].name = "start"
             /\ ~ls'.last[t].ret) =>
             /\ ls'.l.state = "NotStarted"
             /\ ~isListening(ls'.l)
             /\ ls'.l.flow = "none"
             /\ ls'.l.delivered = 0
             /\ ls'.l = ls.l
     /\ \A t \in Callers :
          (ls'.last[t] # ls.last[t] /\ ls'.last[t].name = "stop"
             /\ ls.l.state = "NotStarted") =>
             /\ ls'.l = ls.l
             /\ ~ls'.last[t].blocked
     /\ (ls.l.state = "NotStarted" /\ ls'.l.state = "NotStarted") =>
          ~CallbackRunning']_vars

\* start() failed on one thread, then stop() was called and has returned,
\* and the Listener is as it was constructed.
C22_Witness ==
  /\ ls.last["t1"].name = "start" /\ ~ls.last["t1"].ret
  /\ StopReturned("t2")
  /\ ls.last["t2"].on = "NotStarted"
  /\ ls.l = NewListener

(***************************************************************************)
(* C23                                                                     *)
(***************************************************************************)
\* C23: the state only moves NotStarted -> Listening -> Stopped;
\* isListening() is true exactly while the Listener has been started and no
\* stop has been requested; a stop() on a Listener that is not Listening
\* changes nothing; the flow is torn down at most once, and exactly once
\* when a stop() on a started Listener has returned.
C23_ForwardOnlyAndIdempotentStop ==
  [][/\ \/ ls'.l.state = ls.l.state
        \/ ls.l.state = "NotStarted" /\ ls'.l.state = "Listening"
        \/ ls.l.state = "Listening" /\ ls'.l.state = "Stopped"
     /\ isListening(ls'.l) <=> (ls'.l.flow # "none" /\ ~ls'.l.stopFlag)
     /\ \A t \in Callers :
          (ls'.last[t] # ls.last[t] /\ ls'.last[t].name = "stop"
             /\ ls.l.state # "Listening") => ls'.l = ls.l
     /\ ls'.l.teardowns <= 1
     /\ \A t \in Callers :
          (ls'.pc[t] = "idle" /\ ls'.last[t].name = "stop"
             /\ ls'.last[t].on # "NotStarted") => ls'.l.teardowns = 1]_vars

\* stop() was called from two threads while the flow was still unwinding;
\* both have returned and the flow was torn down once.
C23_Witness ==
  /\ StopReturned("t1") /\ StopReturned("t2")
  /\ ls.last["t1"].on = "Listening" /\ ls.last["t1"].blocked
  /\ ls.last["t2"].on = "Stopped" /\ ls.last["t2"].blocked
  /\ ls.l.teardowns = 1
  /\ ls.l.state = "Stopped"

(***************************************************************************)
(* C24                                                                     *)
(***************************************************************************)
\* C24: on a Sender that has its Impl, for every mask m and every modifier
\* set M held before the call, holdModifier(m) leaves activeModifiers() equal
\* to M union m and releaseModifier(m) leaves it equal to M minus m, whether
\* the call returned true or false, and the bits outside m are the same
\* after the call as before it.
C24_HoldReleaseSetAlgebra ==
  (lastOp.name \in {"holdModifier", "releaseModifier"} /\ prevImpl # <<>>) =>
    /\ m_impl # <<>>
    /\ lastOp.name = "holdModifier" => ModsNow = ModsBefore \cup lastOp.mods
    /\ lastOp.name = "releaseModifier" => ModsNow = ModsBefore \ lastOp.mods
    /\ ModsNow \ lastOp.mods = ModsBefore \ lastOp.mods

\* A failed holdModifier whose mask overlaps the held set in part: one bit
\* of the mask was held already, one is new, and one held bit is outside
\* the mask.
C24_Witness ==
  /\ lastOp.name = "holdModifier" /\ prevImpl # <<>>
  /\ ~ret
  /\ lastOp.mods \cap ModsBefore # {}
  /\ lastOp.mods \ ModsBefore # {}
  /\ ModsBefore \ lastOp.mods # {}
  /\ ModsNow = ModsBefore \cup lastOp.mods

(***************************************************************************)
(* Left and right variants of one modifier class                           *)
(***************************************************************************)
\* How many calls a behaviour of SpecVariants makes.
MaxVariantCalls == 3

\* Both variants of one class and a key of another class.
VariantKeys == {"ShiftLeft", "ShiftRight", "CtrlRight"}

VariantMasks == {{"Shift"}, {"Shift", "Ctrl"}}

\* A call `op` of a behaviour that follows the variants of a class.
CallVariant(op, r) ==
  /\ calls < MaxVariantCalls
  /\ m_impl' = r.m_impl
  /\ events' = r.events
  /\ ret' = r.ret
  /\ lastOp' = op
  /\ calls' = calls + 1
  /\ prevImpl' = m_impl
  /\ prevLen' = Len(events)
  /\ UNCHANGED <<crashed, km, lr, ls>>

VariantKeyDown ==
  \E k \in VariantKeys :
    CallVariant(Op("keyDown", k, {}, "main"), keyDown(Machine, k))

VariantKeyUp ==
  \E k \in VariantKeys :
    CallVariant(Op("keyUp", k, {}, "main"), keyUp(Machine, k))

VariantReleaseModifier ==
  \E mod \in VariantMasks :
    CallVariant(Op("releaseModifier", "-", mod, "main"),
                releaseModifier(Machine, mod))

NextVariants == VariantKeyDown \/ VariantKeyUp \/ VariantReleaseModifier

SpecVariants == Init /\ [][NextVariants]_vars

\* The codes held on the device before the last call.
HeldBefore == HeldOnDevice(SubSeq(events, 1, prevLen))

HeldNow == HeldOnDevice(events)

\* What linuxKeyCodeFor gave for a key when the last call started.
ResolvedBefore(key) == linuxKeyCodeFor(prevImpl[1], key)

(***************************************************************************)
(* C25                                                                     *)
(***************************************************************************)
\* C25: the ledger keeps one bit per modifier class and does not count
\* variants.  keyUp of either variant of a class leaves the class bit clear
\* whichever keys of the class the device still holds down; and
\* releaseModifier(mask) leaves every bit of the mask clear while the only
\* key events it writes are releases of the Left variants of the mask, so a
\* Right variant that was held on the device stays held.
C25_OneBitPerClass ==
  /\ (lastOp.name = "keyUp" /\ lastOp.key \in ModifierKeys) =>
       ModifierBit(lastOp.key) \cap ModsNow = {}
  /\ lastOp.name = "releaseModifier" =>
       /\ lastOp.mods \cap ModsNow = {}
       /\ \A i \in 1..Len(Emitted) :
            IsKeyEvent(Emitted[i]) =>
              /\ Emitted[i].value = 0
              /\ \E bit \in lastOp.mods :
                   Emitted[i].code = ResolvedBefore(LeftOf(bit))
       /\ \A bit \in lastOp.mods :
            ResolvedBefore(RightOf(bit)) \in HeldBefore =>
              ResolvedBefore(RightOf(bit)) \in HeldNow

\* keyDown(ShiftLeft), keyDown(ShiftRight), keyUp(ShiftRight) on a ready
\* Sender: the device still holds ShiftLeft and the Shift bit is clear.
C25_Witness ==
  /\ calls = 3
  /\ lastOp.name = "keyUp" /\ lastOp.key = "ShiftRight" /\ ret
  /\ "Shift" \in ModsBefore
  /\ {CodeBefore("ShiftLeft"), CodeBefore("ShiftRight")} \subseteq HeldBefore
  /\ CodeBefore("ShiftLeft") \in HeldNow
  /\ CodeBefore("ShiftRight") \notin HeldNow
  /\ "Shift" \notin ModsNow

\* keyDown(ShiftRight) then releaseModifier(Shift) on a ready Sender: the
\* bit is clear, one ShiftLeft release was written, ShiftRight stays held.
C25_ReleaseLeavesRightHeld ==
  /\ lastOp.name = "releaseModifier" /\ lastOp.mods = {"Shift"} /\ ret
  /\ "Shift" \in ModsBefore
  /\ CodeBefore("ShiftRight") \in HeldBefore
  /\ CodeBefore("ShiftRight") \in HeldNow
  /\ WireSeq(KeyEvents(Emitted)) = <<KeyEv(CodeBefore("ShiftLeft"), FALSE)>>
  /\ "Shift" \notin ModsNow

(***************************************************************************)
(* C26                                                                     *)
(***************************************************************************)
\* The Keys of the built map that resolve to the physical code c.
KeysOnCode(c) == {k \in DOMAIN km.map : km.map[k] = c}

\* C26: after the key map has been built no physical code is claimed by two
\* distinct Keys (the map is injective), whatever the layout discovery ran
\* on and whichever entries the fallback table added.
C26_KeyMapInjective ==
  km.pc = "done" =>
    \A k1, k2 \in DOMAIN km.map : k1 # k2 => km.map[k1] # km.map[k2]

\* Built on the AZERTY fragment: discovery gave Apostrophe the code of the
\* physical 4 key, no keycode produced the digit, and the fallback table
\* gave Num4 the same code.
C26_AzertyCollision ==
  /\ km.pc = "done"
  /\ km.xkb = XkbAzerty
  /\ KeysOnCode(5) = {"Apostrophe", "Num4"}

\* Built on the Dvorak fragment, where every Key of the table is produced by
\* some keycode: the map is injective.
C26_DvorakInjective ==
  /\ km.pc = "done"
  /\ km.xkb = XkbDvorak
  /\ \A k \in DOMAIN km.map : KeysOnCode(km.map[k]) = {k}
  /\ km.map["C"] = 23 /\ km.map["I"] = 34

(***************************************************************************)
(* C29                                                                     *)
(***************************************************************************)
\* The Impl holding the map as it is at this point of the build.
KmImpl == [fd |-> 3, currentMods |-> {}, keyDelayUs |-> 1000, keyMap |-> km.map]

\* C29: at every point of every build each code stored in the key map is
\* strictly positive (a keycode of 8 or less, whose xkbKey - 8 is 0 or wraps
\* to a negative int, is never recorded), Key::Unknown is never a key of the
\* map, and linuxKeyCodeFor returns -1 for exactly the Keys the map lacks.
C29_StoredCodesPositive ==
  /\ \A k \in DOMAIN km.map : km.map[k] > 0
  /\ "Unknown" \notin DOMAIN km.map
  /\ \A k \in DOMAIN FallbackTable \cup {"Unknown"} :
       (linuxKeyCodeFor(KmImpl, k) = -1) <=> (k \notin DOMAIN km.map)
  /\ km.pc = "scan" =>
       \A k \in DOMAIN km.map :
          \E x \in km.xkb.min..km.xkb.max :
             /\ x > 8 /\ km.map[k] = x - 8
             /\ mapKeysymToKey(km.xkb.sym[x]) = k

\* The scan has passed keycodes 6, 7 and 8, all producing c, without
\* recording C; keycode 9 produced j and J has code 1; a dead key elsewhere
\* resolves to Unknown and is not in the map.
C29_Witness ==
  /\ km.pc = "fallback" /\ km.idx = 1
  /\ km.xkb.min = 6
  /\ \A x \in 6..8 : km.xkb.sym[x] = "c"
  /\ evdevCodeOf(6) = -2 /\ evdevCodeOf(8) = 0
  /\ km.xkb.sym[9] = "j"
  /\ DOMAIN km.map = {"J"} /\ km.map["J"] = 1
  /\ linuxKeyCodeFor(KmImpl, "C") = -1

(***************************************************************************)
(* C27                                                                     *)
(***************************************************************************)
\* The last call was one of the six emitting operations, made on an
\* instance whose m_impl was null when the call started.
CallOnMovedFrom ==
  /\ prevImpl = <<>>
  /\ lastOp.name \in {"keyDown", "keyUp", "tap", "holdModifier",
                      "releaseModifier", "combo"}

\* C27: every operation called on a moved-from Sender fails closed: no call
\* reaches a dereference of the null m_impl (the process never dies), and
\* keyDown, keyUp, tap, holdModifier, releaseModifier and combo return
\* false (true only for hold/release of the empty mask), write nothing,
\* leave m_impl null, activeModifiers() None and isReady() false.
C27_MovedFromFailsClosed ==
  /\ ~crashed
  /\ CallOnMovedFrom =>
       /\ ret = (lastOp.name \in {"holdModifier", "releaseModifier"}
                 /\ lastOp.mods = {})
       /\ Emitted = <<>>
       /\ m_impl = <<>>
       /\ activeModifiers(Machine) = {}
       /\ ~isReady(Machine)

\* Every call on a moved-from Sender other than combo with the empty mask
\* fails closed as above.
C27_FailsClosedButComboNone ==
  /\ crashed => (lastOp.name = "combo" /\ lastOp.mods = {} /\ prevImpl = <<>>)
  /\ (~crashed /\ CallOnMovedFrom) =>
       /\ ret = (lastOp.name \in {"holdModifier", "releaseModifier"}
                 /\ lastOp.mods = {})
       /\ Emitted = <<>>
       /\ m_impl = <<>>
       /\ activeModifiers(Machine) = {}
       /\ ~isReady(Machine)

\* combo with a non-empty mask on a moved-from Sender returned false at the
\* failed holdModifier, before any m_impl->delay().
C27_ComboMaskOnMovedFrom ==
  /\ CallOnMovedFrom /\ lastOp.name = "combo" /\ lastOp.mods # {}
  /\ ~crashed /\ ~ret /\ m_impl = <<>>

(***************************************************************************)
(* C28                                                                     *)
(***************************************************************************)
\* The events of seq come in pairs: a key event, then its sync report.
KeySyncPairs(seq) ==
  /\ Len(seq) % 2 = 0
  /\ \A i \in 1..Len(seq) :
       IF i % 2 = 1 THEN IsKeyEvent(seq[i]) ELSE Wire(seq[i]) = SynReport

\* C28: in the stream of events the device has received, every key event is
\* immediately followed by a sync report, and what keyDown, keyUp, tap,
\* holdModifier, releaseModifier or combo wrote is a sequence of such pairs,
\* so each pair comes from one call and no key event is left without its
\* sync report when the call returns; flush() writes one sync report on a
\* Sender that has its Impl and an open device, nothing otherwise, and never
\* a key event.
C28_KeyEventsAreSynced ==
  /\ \A i \in 1..Len(events) :
       IsKeyEvent(events[i]) =>
         /\ i < Len(events)
         /\ Wire(events[i + 1]) = SynReport
  /\ lastOp.name \in {"keyDown", "keyUp", "tap", "holdModifier",
                      "releaseModifier", "combo"} => KeySyncPairs(Emitted)
  /\ lastOp.name = "flush" =>
       WireSeq(Emitted) = IF isReady(Before) THEN <<SynReport>> ELSE <<>>

\* A combo of two modifiers and a key on a ready Sender wrote six key
\* events, each followed by its sync report, and a flush() before it wrote
\* one sync report of its own.
C28_Witness ==
  /\ lastOp.name = "combo" /\ ret
  /\ Len(KeyEvents(Emitted)) = 6 /\ Len(Emitted) = 12
  /\ prevLen = 1 /\ Wire(events[1]) = SynReport

============================================================================
